---- MODULE Spec2Model ----
(***************************************************************************)
(* A model of the TikTokTrends processing pipeline:                        *)
(*   - the Analysis Worker's model-fallback loop (src/processing/text),    *)
(*   - the Stage Dispatcher lambdas and the partition registry statement   *)
(*     they issue (src/infrastructure/infrastructure/lambda),              *)
(*   - the Metadata Worker's cursor filter (src/ingestion/metadata),       *)
(*   - the Transcription Worker's batch loop (src/processing/transcription)*)
(* Each component has its own specification over the shared variables;     *)
(* the variables of the other components stay at their initial values.     *)
(***************************************************************************)
EXTENDS Integers, Sequences, FiniteSets, TLC

VARIABLES
    \* ---- Analysis Worker (src/processing/text/main.py)
    current_model_index, \* CONFIG.current_model_index
    tp_pc,               \* "ready" between items, "calling" inside process_video, "done"
    tp_row,              \* number of rows of the batch started so far
    tp_iter,             \* the loop counter _ of process_video
    tp_log,              \* history: per started row, the index it started with, the
                         \* provider calls made for it, what process_video returned
                         \* and the number of sleeps made when it was entered
    tp_sleeps,           \* history: number of time.sleep(1) calls of the batch
    df,                  \* the analysis columns of the batch's rows
    \* ---- Stage Dispatcher (src/infrastructure/infrastructure/lambda/*/index.py)
    catalog,             \* the partitions registered in the Glue catalog
    jobs,                \* the jobs submitted to AWS Batch (a bag: job -> count)
    h,                   \* the handler invocation in progress, or the last one finished
    acked,               \* history: <<function, event>> pairs an earlier invocation
                         \* returned 200 for (the delivery system acknowledged them)
    delivered,           \* history: number of events delivered so far
    \* ---- Metadata Worker (src/ingestion/metadata/main.py)
    store,               \* the objects of the bucket under videos/metadata/: key and rows
    m_now,               \* the wall clock, in ticks
    m_videos,            \* the videos the profile has published: id, upload_date (the
                         \* day) and, as history, the time of the upload
    m_runs,              \* history: number of passes of main's profile loop so far
    m_last,              \* history: what the last pass of main's profile loop did
    m_hist,              \* history: for each pass so far that got a frame, the keys it
                         \* found, its candidates, its cursor, what it kept and when
    \* ---- Transcription Worker (src/processing/transcription/main.py and the
    \*      earlier src/ingestion/ingestion/transcriber.py)
    tr_variant,          \* which Transcriber class runs: "processing" or "ingestion"
    tr_ids,              \* video_ids, the argument of process_videos
    tr_pc,               \* "download", "loop", "cleanup", "done" (process_videos has
                         \* returned) or "finished" (main is through with the profile)
    tr_dir,              \* whether the profile's scratch directory exists
    tr_files,            \* the ids whose .wav file is in the scratch directory
    tr_paths,            \* audio_paths, the result of download_videos
    tr_k,                \* position of the loop over audio_paths
    tr_transcripts,      \* transcripts, the list being built
    tr_result,           \* what process_videos returned
    tr_env,              \* history: what failed (bulk download, ids not acquired,
                         \* positions whose transcription raised, a cleanup step)
    \* ---- Worker runs and the Artifact Store (the main functions of
    \*      src/ingestion/metadata, src/processing/transcription, src/processing/text)
    w_clock,             \* datetime.now(), in seconds
    w_runs,              \* the profile batches started: worker, profile, items done,
                         \* state, and history: the Artifact Store call that raised
    w_objects,           \* the objects of the bucket: key, the run that put it, its rows
    w_puts,              \* history: the puts made, and whether the key existed before
    w_parse,             \* what the dispatcher made of the last notification it parsed
    \* ---- Job names (create_valid_job_name of metadata_trigger and transcript_trigger)
    jn_fn,               \* the function the record is delivered to, or "none"
    jn_key,              \* the key of the record: a sequence of path parts
    jn_name,             \* what the last call of create_valid_job_name returned: a
                         \* sequence of characters, <<>> before the first call
    jn_prev,             \* history: what the call before it returned for the same key
                         \* (in an earlier invocation), or <<>> without one
    \* ---- Job launcher (src/scripts/ingest.py)
    sp_lines,            \* the lines of the profile file
    sp_containers,       \* num_containers
    sp_result,           \* what split_profiles did: not called yet, raised, or the groups
    \* ---- Artifacts handed from stage to stage (the three mains)
    sc_store,            \* the artifacts written: key and the columns of the file
    sc_frame             \* the frame a consuming worker has loaded: its columns, the
                         \* columns read from it so far, and how the run ended

textVars == <<current_model_index, tp_pc, tp_row, tp_iter, tp_log, tp_sleeps, df>>

dispatchVars == <<catalog, jobs, h, acked, delivered>>

metaVars == <<store, m_now, m_videos, m_runs, m_last, m_hist>>

transVars == <<tr_variant, tr_ids, tr_pc, tr_dir, tr_files, tr_paths, tr_k,
               tr_transcripts, tr_result, tr_env>>

workVars == <<w_clock, w_runs, w_objects, w_puts, w_parse>>

nameVars == <<jn_fn, jn_key, jn_name, jn_prev>>

splitVars == <<sp_lines, sp_containers, sp_result>>

schemaVars == <<sc_store, sc_frame>>

vars == <<textVars, dispatchVars, metaVars, transVars, workVars, nameVars, splitVars,
          schemaVars>>

\* What the steps of one component leave alone: the other components' state.
notText ==
    <<dispatchVars, metaVars, transVars, workVars, nameVars, splitVars, schemaVars>>

notDispatch ==
    <<textVars, metaVars, transVars, workVars, nameVars, splitVars, schemaVars>>

notMeta ==
    <<textVars, dispatchVars, transVars, workVars, nameVars, splitVars, schemaVars>>

notTrans ==
    <<textVars, dispatchVars, metaVars, workVars, nameVars, splitVars, schemaVars>>

notWork ==
    <<textVars, dispatchVars, metaVars, transVars, nameVars, splitVars, schemaVars>>

notNames ==
    <<textVars, dispatchVars, metaVars, transVars, workVars, splitVars, schemaVars>>

notSplit ==
    <<textVars, dispatchVars, metaVars, transVars, workVars, nameVars, schemaVars>>

notSchema ==
    <<textVars, dispatchVars, metaVars, transVars, workVars, nameVars, splitVars>>

\* ---------------------------------------------------------------------------
\* Analysis Worker
\* ---------------------------------------------------------------------------

\* The models in order of preference.
OPENAI_MODELS == <<"gpt-4o-mini", "gpt-3.5-turbo", "o1-mini">>

NumModels == Len(OPENAI_MODELS)

\* Rows of one profile's batch handed to process_video_transcripts.
MaxRows == 3

\* What one chat.completions.create call (plus json.loads of its content) does:
\*   "ok"          a JSON object with the four analysis keys
\*   "rate_limit"  raises RateLimitError
\*   "net_error"   raises another exception (network failure)
\*   "bad_json"    returns content json.loads cannot parse (raises ValueError)
\*   "partial"     a JSON object with the language key but without the others
Responses == {"ok", "rate_limit", "net_error", "bad_json", "partial"}

AnyError == {"rate_limit", "net_error", "bad_json"}

\* The responses process_video's `except RateLimitError` clause catches.
RateLimitErrors == {"rate_limit"}

\* The responses its `except Exception` clause catches.
OtherErrors == {"net_error", "bad_json"} \ RateLimitErrors

EmptyStrings == [language |-> "", category |-> "", summary |-> "", keywords |-> ""]

\* The columns process_video_transcripts initialises: None, None, '', [].
DefaultRow == [language |-> "None", category |-> "None", summary |-> "", keywords |-> "[]"]

AnalysedRow == [language |-> "en", category |-> "Dance", summary |-> "s", keywords |-> "[k]"]

\* What process_video_transcripts makes of a row when process_video returned
\* r: nothing for None; the four assignments in order for an analysis, the
\* first missing key raising KeyError, which is logged before the loop
\* continues.
Applied(row, r) ==
    CASE r = "analysis" -> AnalysedRow
      [] r = "partial" -> [row EXCEPT !.language = AnalysedRow.language]
      [] OTHER -> row

\* A mutation of current_model that always names the first model of the list.
PreferredModel == OPENAI_MODELS[1]

\* Config.current_model
current_model == OPENAI_MODELS[current_model_index + 1]

StickToFirstModel(i) == 0

\* A mutation of switch_to_next_model that stops at the last model of the list.
NoWrapAround(i) == IF i + 1 < NumModels THEN i + 1 ELSE i

\* Config.switch_to_next_model: the new index
switch_to_next_model(i) == (i + 1) % NumModels

OneAttemptTooMany == Len(OPENAI_MODELS) + 1

\* process_video: range(len(OPENAI_MODELS)), the attempts of one item
MaxAttempts == Len(OPENAI_MODELS)

\* time.sleep(1) calls of process_video_transcripts' loop body, made before
\* process_video is entered.
SleepsPerItem == 1

\* A mutation of the fallback path that waits before the next attempt as well.
SleepBeforeRetry == SleepsPerItem

\* time.sleep calls between two attempts of process_video for one item: the
\* RateLimitError branch switches the model and continues at once.
SleepsBetweenAttempts == 0

TextInit ==
    /\ current_model_index = 0
    /\ tp_pc = "ready"
    /\ tp_row = 0
    /\ tp_iter = 0
    /\ tp_log = <<>>
    /\ tp_sleeps = 0
    /\ df = [r \in 1..MaxRows |-> DefaultRow]

\* process_video_transcripts: the next row of iterrows(); sleep, then enter
\* process_video (its loop counter starts at 0).
StartItem ==
    /\ tp_pc = "ready"
    /\ tp_row < MaxRows
    /\ tp_row' = tp_row + 1
    /\ tp_sleeps' = tp_sleeps + SleepsPerItem
    /\ tp_iter' = 0
    /\ tp_log' = Append(tp_log, [start |-> current_model_index, calls |-> <<>>,
                                 result |-> "pending", slept |-> tp_sleeps'])
    /\ tp_pc' = "calling"
    /\ UNCHANGED <<current_model_index, df>>
    /\ UNCHANGED notText

\* The log after one more provider call for the current row, with the row's
\* result r ("pending" while process_video is still looping).
Logged(call, r) ==
    [tp_log EXCEPT ![tp_row] = [@ EXCEPT !.calls = Append(@, call), !.result = r]]

\* process_video returns r to process_video_transcripts, which applies a
\* truthy analysis to the row.
ReturnToLoop(r) ==
    /\ tp_pc' = "ready"
    /\ df' = [df EXCEPT ![tp_row] = Applied(@, r)]

\* One iteration of process_video's for loop: one provider call with the
\* current model and the handling of its outcome.
ProviderCall(resp) ==
    LET call == [model |-> current_model, resp |-> resp] IN
    /\ tp_pc = "calling"
    /\ tp_iter < MaxAttempts
    /\ \/ /\ resp = "ok"
          /\ tp_log' = Logged(call, "analysis")
          /\ ReturnToLoop("analysis")
          /\ UNCHANGED <<current_model_index, tp_iter, tp_sleeps>>
       \/ /\ resp = "partial"
          /\ tp_log' = Logged(call, "partial")
          /\ ReturnToLoop("partial")
          /\ UNCHANGED <<current_model_index, tp_iter, tp_sleeps>>
       \/ /\ resp \in RateLimitErrors
          /\ current_model_index' = switch_to_next_model(current_model_index)
          /\ tp_iter' = tp_iter + 1
          /\ tp_sleeps' = tp_sleeps + SleepsBetweenAttempts
          /\ IF tp_iter + 1 < MaxAttempts
                THEN /\ tp_log' = Logged(call, "pending")
                     /\ UNCHANGED <<tp_pc, df>>
                ELSE /\ tp_log' = Logged(call, "None")   \* "All models failed"
                     /\ ReturnToLoop("None")
       \/ /\ resp \in OtherErrors
          /\ tp_log' = Logged(call, "None")
          /\ ReturnToLoop("None")
          /\ UNCHANGED <<current_model_index, tp_iter, tp_sleeps>>
    /\ UNCHANGED tp_row
    /\ UNCHANGED notText

\* process_video_transcripts returns the frame after the last row.
FinishBatch ==
    /\ tp_pc = "ready"
    /\ tp_row = MaxRows
    /\ tp_pc' = "done"
    /\ UNCHANGED <<current_model_index, tp_row, tp_iter, tp_log, tp_sleeps, df>>
    /\ UNCHANGED notText

TextNext ==
    \/ StartItem
    \/ \E resp \in Responses : ProviderCall(resp)
    \/ FinishBatch

\* ---------------------------------------------------------------------------
\* Object keys
\* ---------------------------------------------------------------------------
\* A key is a stage prefix followed by path segments. A segment <name>=<value>
\* has the name before "=" ("" for a segment without "="). A value is a plain
\* string s, or a timestamp t rendered with a date/time separator and a colon
\* character, the two characters the writers and URL encoding disagree on.

Name(s) == [s |-> s, t |-> 0, sep |-> "", colon |-> ""]

Stamp(t, sep, colon) == [s |-> "ts", t |-> t, sep |-> sep, colon |-> colon]

Seg(name, val) == [name |-> name, val |-> val]

Key(prefix, segs) == [prefix |-> prefix, segs |-> segs]

\* The key as an S3 event notification carries it (URL-encoded): ":" becomes
\* "%3A" and a space becomes "+".
S3EventValue(v) ==
    [v EXCEPT !.colon = IF v.colon = ":" THEN "%3A" ELSE v.colon,
              !.sep = IF v.sep = " " THEN "+" ELSE v.sep]

S3EventKey(key) ==
    Key(key.prefix,
        [i \in 1..Len(key.segs) |-> Seg(key.segs[i].name, S3EventValue(key.segs[i].val))])

KeepEncoded(v) == v

\* urllib.parse.unquote: "%3A" becomes ":"; "+" is left as it is.
unquote_value(v) == [v EXCEPT !.colon = IF v.colon = "%3A" THEN ":" ELSE v.colon]

unquote(key) ==
    Key(key.prefix,
        [i \in 1..Len(key.segs) |-> Seg(key.segs[i].name, unquote_value(key.segs[i].val))])

\* ---------------------------------------------------------------------------
\* Partition Registry
\* ---------------------------------------------------------------------------

NoMatch == [matched |-> FALSE, profile |-> Name(""), processed_at |-> Name("")]

\* re.compile(r'profile=([^/]+)/processed_at=([^/]+)/').search(key): the first
\* place where a non-empty profile= segment is followed by a non-empty
\* processed_at= segment that is itself followed by "/".
partition_pattern_search(key) ==
    LET segs == key.segs
        hits == {i \in 1..Len(segs) :
                    /\ i + 2 <= Len(segs)
                    /\ segs[i].name = "profile"
                    /\ segs[i].val.s # ""
                    /\ segs[i + 1].name = "processed_at"
                    /\ segs[i + 1].val.s # ""}
    IN  IF hits = {} THEN NoMatch
        ELSE LET i == CHOOSE k \in hits : \A j \in hits : k <= j
             IN  [matched |-> TRUE, profile |-> segs[i].val,
                  processed_at |-> segs[i + 1].val]

\* f"s3://{bucket}/<stage prefix>/profile={profile}/processed_at={processed_at}"
Location(bucket, prefix, profile, processed_at) ==
    [bucket |-> bucket,
     dir |-> Key(prefix, <<Seg("profile", profile), Seg("processed_at", processed_at)>>)]

AddPartitionUnguarded(table, profile, processed_at, location) ==
    [table |-> table, if_not_exists |-> FALSE, profile |-> profile,
     processed_at |-> processed_at, location |-> location]

\* The statement add_partition issues:
\* ALTER TABLE tiktok_analytics.<table> ADD IF NOT EXISTS PARTITION
\*   (profile = '<profile>', processed_at = '<processed_at>') LOCATION '<location>'
AddPartitionQuery(table, profile, processed_at, location) ==
    [table |-> table, if_not_exists |-> TRUE, profile |-> profile,
     processed_at |-> processed_at, location |-> location]

\* The partitions of the catalog with the statement's table and partition values.
Registered(cat, q) ==
    {c \in cat : /\ c.table = q.table
                 /\ c.profile = q.profile
                 /\ c.processed_at = q.processed_at}

\* What the catalog does with the statement when the query runs: an existing
\* partition is left as it is (and without IF NOT EXISTS the query fails),
\* a new one is added.
ExecuteDDL(cat, q) ==
    IF Registered(cat, q) # {}
        THEN [catalog |-> cat,
              state |-> IF q.if_not_exists THEN "SUCCEEDED" ELSE "FAILED"]
        ELSE [catalog |-> cat \cup {[table |-> q.table, profile |-> q.profile,
                                     processed_at |-> q.processed_at,
                                     location |-> q.location]},
              state |-> "SUCCEEDED"]

\* How a started query ends in Athena: it runs ("none"), or it fails or is
\* cancelled before touching the catalog.
Fates == {"none", "FAILED", "CANCELLED"}

\* ---------------------------------------------------------------------------
\* Stage Dispatcher
\* ---------------------------------------------------------------------------

Functions == {"metadata_trigger", "transcript_trigger", "text_trigger"}

\* The key prefix whose object-created notifications reach the function.
StagePrefix(fn) ==
    CASE fn = "metadata_trigger" -> "videos/metadata"
      [] fn = "transcript_trigger" -> "videos/transcripts"
      [] fn = "text_trigger" -> "videos/text"

\* The table and location prefix add_partition of the function uses
\* (transcript_trigger has no add_partition).
PartitionTable(fn) ==
    CASE fn = "metadata_trigger" -> "metadata"
      [] fn = "text_trigger" -> "text_analysis"
      [] OTHER -> "none"

\* initial_partition_detection.main: the table registered for a listed prefix.
ScriptTable(prefix) ==
    CASE prefix = "videos/metadata" -> "metadata"
      [] prefix = "videos/text" -> "text_analysis"
      [] OTHER -> "none"

\* The job the function submits for a record (text_trigger submits none).
JobFor(fn, bucket, decoded_key) ==
    CASE fn = "metadata_trigger" ->
            [jobQueue |-> "GPU_JOB_QUEUE", jobDefinition |-> "TRANSCRIBER_JOB_DEFINITION",
             key_name |-> "METADATA_S3_KEY", key |-> decoded_key, S3_BUCKET |-> bucket]
      [] fn = "transcript_trigger" ->
            [jobQueue |-> "FARGATE_JOB_QUEUE", jobDefinition |-> "TEXT_ANALYSIS_JOB_DEFINITION",
             key_name |-> "TRANSCRIPTS_S3_KEY", key |-> decoded_key, S3_BUCKET |-> bucket]

\* containerOverrides.environment of a submitted job: the variables the
\* dispatcher sets for the container, by name.
JobEnvironment(j) == (j.key_name :> j.key) @@ ("S3_BUCKET" :> j.S3_BUCKET)

\* The worker whose image a job definition runs.
WorkerOf(jobDefinition) ==
    CASE jobDefinition = "TRANSCRIBER_JOB_DEFINITION" -> "transcription"
      [] jobDefinition = "TEXT_ANALYSIS_JOB_DEFINITION" -> "text"

\* os.getenv(name, default)
Getenv(env, name, default) == IF name \in DOMAIN env THEN env[name] ELSE default

NoKey == Key("None", <<>>)

\* Where a worker reads its input from, pd.read_parquet(s3://<bucket>/<key>):
\* the Transcription Worker's Config takes S3_BUCKET (default 'tiktoktrends')
\* and METADATA_S3_KEY, the Analysis Worker's S3_BUCKET and TRANSCRIPTS_S3_KEY.
WorkerInput(worker, env) ==
    CASE worker = "transcription" ->
            [bucket |-> Getenv(env, "S3_BUCKET", "tiktoktrends"),
             key |-> Getenv(env, "METADATA_S3_KEY", NoKey)]
      [] worker = "text" ->
            [bucket |-> Getenv(env, "S3_BUCKET", "None"),
             key |-> Getenv(env, "TRANSCRIPTS_S3_KEY", NoKey)]

\* Events delivered to the handlers over the whole run.
MaxDeliveries == 3

\* Polls of a still running query that are told apart.
MaxPolls == 1

\* An artifact as a worker writes it under the function's prefix.
GoodKey(fn) ==
    Key(StagePrefix(fn), <<Seg("profile", Name("p1")),
                           Seg("processed_at", Stamp(1, "_", ":")),
                           Seg("", Name("data.parquet"))>>)

\* An object under the prefix whose key has no processed_at= segment.
MalformedKey(fn) ==
    Key(StagePrefix(fn), <<Seg("profile", Name("p1")), Seg("", Name("data.parquet"))>>)

\* An artifact one directory below the stage prefix.
NestedKey(fn) ==
    Key(StagePrefix(fn), <<Seg("", Name("archive")),
                           Seg("profile", Name("p1")),
                           Seg("processed_at", Stamp(1, "_", ":")),
                           Seg("", Name("data.parquet"))>>)

\* File names the script's pattern accepts (they end in .parquet).
ParquetNames == {"data.parquet"}

S3Record(bucket, key) == [bucket |-> bucket, key |-> S3EventKey(key)]

\* The events a function can be invoked with: S3 notifications wrapped in an
\* SNS message (what the handlers read), and the same delivered as a plain SQS
\* message (what the stack's event source sends).
Events(fn) ==
    {[envelope |-> "sns", records |-> <<S3Record("tiktoktrends", GoodKey(fn))>>],
     [envelope |-> "sns", records |-> <<S3Record("tiktoktrends-copy", GoodKey(fn))>>],
     [envelope |-> "sns", records |-> <<S3Record("tiktoktrends", MalformedKey(fn))>>],
     [envelope |-> "sns", records |-> <<S3Record("tiktoktrends", MalformedKey(fn)),
                                        S3Record("tiktoktrends", GoodKey(fn))>>],
     [envelope |-> "sns", records |-> <<S3Record("tiktoktrends", NestedKey(fn))>>],
     [envelope |-> "sqs", records |-> <<S3Record("tiktoktrends", GoodKey(fn))>>]}

\* The listings initial_partition_detection.main works through: the objects of
\* its bucket under videos/metadata/ and under videos/text/.
Listed(bucket, key) == [bucket |-> bucket, key |-> key]

Listings ==
    {[envelope |-> "listing",
      records |-> <<Listed("tiktoktrends", NestedKey(fn)),
                    Listed("tiktoktrends", GoodKey(fn))>>]
        : fn \in {"metadata_trigger", "text_trigger"}}

NoQuery == AddPartitionQuery("none", Name(""), Name(""),
                             Location("", "", Name(""), Name("")))

IdleHandler ==
    [fn |-> "none", ev |-> [envelope |-> "none", records |-> <<>>], idx |-> 0,
     pc |-> "idle", polls |-> 0, query |-> NoQuery, calls |-> <<>>, qlog |-> <<>>,
     failed |-> FALSE, outcome |-> "none", dup |-> FALSE,
     jobs0 |-> <<>>, catalog0 |-> {}, returns |-> <<>>]

DispatchInit ==
    /\ catalog = {}
    /\ jobs = <<>>
    /\ h = IdleHandler
    /\ acked = {}
    /\ delivered = 0

\* The first step the function takes for an S3 record.
FirstStep(fn) ==
    IF fn \in {"text_trigger", "initial_partition_detection"} THEN "add_partition"
    ELSE "submit_job"

\* The invocation after it is done with record hh.idx: the next record of the
\* loop, or the return of statusCode 200 after the last one.
Advance(hh) ==
    IF hh.idx < Len(hh.ev.records)
        THEN [hh EXCEPT !.idx = hh.idx + 1, !.pc = FirstStep(hh.fn), !.polls = 0,
                        !.query = NoQuery]
        ELSE [hh EXCEPT !.pc = "done", !.outcome = "ok", !.polls = 0, !.query = NoQuery]

\* The invocation after an exception reached the handler's except clause,
\* which logs it and re-raises.
Raise(hh) == [hh EXCEPT !.pc = "done", !.outcome = "raised", !.failed = TRUE]

\* The events some finished invocation returned 200 for.
Handled == acked \cup (IF h.outcome = "ok" THEN {<<h.fn, h.ev>>} ELSE {})

\* handler(event, context) is invoked: record['Sns']['Message'] of the first
\* record raises KeyError unless the event has the SNS envelope. (Deliveries
\* are counted up to MaxDeliveries; the queue goes on redelivering the
\* messages whose invocation raised.)
Invoke(fn, ev) ==
    /\ h.pc \in {"idle", "done"}
    /\ delivered < MaxDeliveries \/ ev.envelope = "sqs"
    /\ delivered' = IF delivered < MaxDeliveries THEN delivered + 1 ELSE delivered
    /\ acked' = Handled
    /\ LET start == [IdleHandler EXCEPT !.fn = fn, !.ev = ev,
                                        !.dup = (<<fn, ev>> \in Handled),
                                        !.jobs0 = jobs, !.catalog0 = catalog]
       IN  h' = IF ev.envelope = "sqs" THEN Raise(start) ELSE Advance(start)
    /\ UNCHANGED <<catalog, jobs>>
    /\ UNCHANGED notDispatch

CurrentRecord == h.ev.records[h.idx]

\* jobs with one more copy of job j
WithJob(j) ==
    IF j \in DOMAIN jobs THEN [jobs EXCEPT ![j] = @ + 1]
    ELSE [x \in DOMAIN jobs \cup {j} |-> IF x = j THEN 1 ELSE jobs[x]]

\* batch.submit_job(...) for the current record: the job is queued, or the
\* call raises and the handler re-raises.
SubmitJob(ok) ==
    /\ h.pc = "submit_job"
    /\ LET called == [h EXCEPT !.calls = Append(@, [api |-> "submit_job", rec |-> h.idx])]
       IN  IF ok
             THEN /\ jobs' = WithJob(JobFor(h.fn, CurrentRecord.bucket,
                                            unquote(CurrentRecord.key)))
                  /\ h' = IF h.fn = "metadata_trigger"
                             THEN [called EXCEPT !.pc = "add_partition"]
                             ELSE Advance(called)
             ELSE /\ jobs' = jobs
                  /\ h' = Raise(called)
    /\ UNCHANGED <<catalog, acked, delivered>>
    /\ UNCHANGED notDispatch

\* list_partitions: the pattern
\* r'profile=([^/]+)/processed_at=([^/]+)/[^/]+\.parquet$' on a listed key.
list_partitions_search(key) ==
    LET segs == key.segs
        n == Len(segs)
    IN  IF /\ n >= 3
           /\ segs[n - 2].name = "profile"
           /\ segs[n - 2].val.s # ""
           /\ segs[n - 1].name = "processed_at"
           /\ segs[n - 1].val.s # ""
           /\ segs[n].val.s \in ParquetNames
        THEN [matched |-> TRUE, profile |-> segs[n - 2].val,
              processed_at |-> segs[n - 1].val]
        ELSE NoMatch

\* list_partitions: f"s3://{bucket}/{key.rsplit('/', 1)[0]}"
full_path(bucket, key) ==
    [bucket |-> bucket, dir |-> Key(key.prefix, SubSeq(key.segs, 1, Len(key.segs) - 1))]

\* The partition a record implies and the statement registering it: in the
\* lambdas from the decoded event key and the function's fixed table and
\* location prefix, in the script from the listed key and its directory.
PartitionOf(fn, rec) ==
    IF fn = "initial_partition_detection"
        THEN LET m == list_partitions_search(rec.key)
             IN  [matched |-> m.matched,
                  query |-> AddPartitionQuery(ScriptTable(rec.key.prefix), m.profile,
                                              m.processed_at, full_path(rec.bucket, rec.key))]
        ELSE LET m == partition_pattern_search(unquote(rec.key))
             IN  [matched |-> m.matched,
                  query |-> AddPartitionQuery(PartitionTable(fn), m.profile, m.processed_at,
                                              Location(rec.bucket, StagePrefix(fn),
                                                       m.profile, m.processed_at))]

\* What the caller of add_partition gets, by how the call went inside
\* ("no_match", "SUCCEEDED", "FAILED", "CANCELLED", or "raised" when starting
\* or polling the query raised): the function logs and falls off its end, or
\* returns from the no-match branch, so the caller gets None every time.
add_partition_returns(went) == "None"

\* The invocation with one more return of add_partition noted.
Returned(hh, went) ==
    [hh EXCEPT !.returns = Append(@, [rec |-> hh.idx, went |-> went,
                                      value |-> add_partition_returns(went)])]

\* add_partition(bucket, decoded_key) up to the start of the query: no match
\* returns; otherwise athena.start_query_execution is called, and an exception
\* of it is caught and logged inside add_partition. (In the script, one pass
\* of add_partitions' loop over the listed partitions.)
StartQuery(ok) ==
    /\ h.pc = "add_partition"
    /\ LET p == PartitionOf(h.fn, CurrentRecord)
           called == [h EXCEPT !.calls = Append(@, [api |-> "start_query_execution",
                                                    rec |-> h.idx])]
       IN  h' = IF ~p.matched THEN Advance(Returned(h, "no_match"))
                ELSE IF ok THEN [called EXCEPT !.pc = "poll", !.query = p.query]
                ELSE Advance(Returned([called EXCEPT !.failed = TRUE], "raised"))
    /\ UNCHANGED <<catalog, jobs, acked, delivered>>
    /\ UNCHANGED notDispatch

\* One pass of the polling loop that finds the query still running. The loop
\* is `while True`: it has no bound, and the passes are counted modulo
\* MaxPolls + 1.
PollRunning ==
    /\ h.pc = "poll"
    /\ h' = [h EXCEPT !.polls = (@ + 1) % (MaxPolls + 1)]
    /\ UNCHANGED <<catalog, jobs, acked, delivered>>
    /\ UNCHANGED notDispatch

\* The query ends in Athena (fate) and the polling loop either reads its
\* terminal state or get_query_execution raises; either way add_partition
\* logs and returns None.
AwaitQuery(fate, poll_ok) ==
    /\ h.pc = "poll"
    /\ LET run == IF fate = "none" THEN ExecuteDDL(catalog, h.query)
                  ELSE [catalog |-> catalog, state |-> fate]
           old == Registered(catalog, h.query)
           entry == [query |-> h.query, rec |-> h.idx, fate |-> fate,
                     state |-> run.state, seen |-> poll_ok,
                     existing |-> {c.location : c \in old}]
       IN  /\ catalog' = run.catalog
           /\ h' = Advance(Returned([h EXCEPT !.qlog = Append(@, entry),
                                              !.failed = @ \/ run.state # "SUCCEEDED"
                                                           \/ ~poll_ok],
                                    IF poll_ok THEN run.state ELSE "raised"))
    /\ UNCHANGED <<jobs, acked, delivered>>
    /\ UNCHANGED notDispatch

DispatchNext ==
    \/ \E fn \in Functions : \E ev \in Events(fn) : Invoke(fn, ev)
    \/ \E ev \in Listings : Invoke("initial_partition_detection", ev)
    \/ \E ok \in BOOLEAN : SubmitJob(ok)
    \/ \E ok \in BOOLEAN : StartQuery(ok)
    \/ PollRunning
    \/ \E fate \in Fates : \E poll_ok \in BOOLEAN : AwaitQuery(fate, poll_ok)

\* ---------------------------------------------------------------------------
\* Metadata Worker
\* ---------------------------------------------------------------------------

\* Passes of main's profile loop, clock ticks and published videos considered.
MaxRuns == 2

MaxTime == 3

MaxVideos == 2

\* Clock ticks per day: upload_date is a date (midnight), processed_at a time.
TicksPerDay == 2

Midnight(t) == (t \div TicksPerDay) * TicksPerDay

\* The profile main works on, and another profile with data in the bucket.
Profile == "p1"

OtherProfile == "p2"

\* An object written by the earlier pipeline generation, which named its
\* partitions PROFILE=/PROCESSED_AT= and rendered the time with a space
\* ('%Y-%m-%d %H:%M:%S'), such as the key transcription's main falls back to.
LegacyObject(profile, t) ==
    [key |-> Key("videos/metadata", <<Seg("PROFILE", Name(profile)),
                                      Seg("PROCESSED_AT", Stamp(t, " ", ":")),
                                      Seg("", Name("metadata.parquet"))>>),
     rows |-> {}]

\* main: f"{CONFIG.s3_prefix}/profile={profile}/processed_at={current_time}/metadata.parquet"
\* with current_time = datetime.now().strftime('%Y-%m-%d_%H:%M:%S')
MetadataKey(profile, t) ==
    Key("videos/metadata", <<Seg("profile", Name(profile)),
                             Seg("processed_at", Stamp(t, "_", ":")),
                             Seg("", Name("metadata.parquet"))>>)

\* s3_client.list_objects_v2(Prefix = "videos/metadata/PROFILE=<profile>/PROCESSED_AT="):
\* the objects whose key starts with that text (keys are case-sensitive).
ListedFor(st, profile) ==
    {o \in st : /\ o.key.prefix = "videos/metadata"
                /\ Len(o.key.segs) >= 2
                /\ o.key.segs[1] = Seg("PROFILE", Name(profile))
                /\ o.key.segs[2].name = "PROCESSED_AT"}

\* datetime.strptime(value, '%Y-%m-%d %H:%M:%S') parses the value or raises.
Parses(v) == v.s = "ts" /\ v.sep = " " /\ v.colon = ":"

SetMax(S) == CHOOSE x \in S : \A y \in S : y <= x

\* A mutation of check_last_processed_at that takes the cursor from the wall clock.
WallClockCursor(st, profile) == [kind |-> "time", t |-> m_now - 1]

\* check_last_processed_at(profile): None without listed objects, the latest
\* parsed PROCESSED_AT value otherwise; a value strptime rejects raises.
check_last_processed_at(st, profile) ==
    LET listed == ListedFor(st, profile)
        values == {o.key.segs[2].val : o \in listed}
    IN  IF listed = {} THEN [kind |-> "None", t |-> 0]
        ELSE IF \E v \in values : ~Parses(v) THEN [kind |-> "raise", t |-> 0]
        ELSE [kind |-> "time", t |-> SetMax({v.t : v \in values})]

\* main: video_metadata[video_metadata['upload_date'] > last_processed_at]
\* when a last_processed_at was found, the whole frame otherwise.
FilterUnprocessed(videos, last) ==
    IF last.kind = "time" THEN {v \in videos : v.upload_date > last.t} ELSE videos

\* S3 put: the object replaces one with the same key.
Put(st, key, rows) == {o \in st : o.key # key} \cup {[key |-> key, rows |-> rows]}

\* A mutation of extract_video_metadata that returns the item it could not read.
KeepUnparsed(info, bad) == {info}

\* extract_video_metadata(info_path): the item's row, or the empty dict when
\* reading the info file raises (unreadable JSON, no 'id', an upload_date
\* strptime rejects); the empty dict is the empty set here, a row a singleton.
extract_video_metadata(info, bad) == IF info.id \in bad THEN {} ELSE {info}

NoFrame == [none |-> TRUE, rows |-> {}]

\* get_profile_metadata(profile): None when download_metadata returned None
\* (the download raised or left no file in the profile directory) or when no
\* info file gave a row, the frame of the rows of the readable files otherwise.
get_profile_metadata(files, download_ok, bad) ==
    LET video_data == UNION {extract_video_metadata(f, bad) : f \in files}
    IN  IF ~download_ok \/ files = {} THEN NoFrame
        ELSE IF video_data = {} THEN NoFrame
        ELSE [none |-> FALSE, rows |-> video_data]

NoRun ==
    [fetched |-> FALSE, cursor |-> [kind |-> "None", t |-> 0], candidates |-> {},
     kept |-> {}, wrote |-> FALSE, at |-> 0, store0 |-> {},
     downloaded |-> {}, bad |-> {}]

MetaInit ==
    /\ store \in SUBSET {LegacyObject(Profile, 0), LegacyObject(OtherProfile, 2)}
    /\ m_now = 2
    /\ m_videos \in SUBSET {[id |-> 1, upload_date |-> Midnight(1), uploaded_at |-> 1]}
    /\ m_runs = 0
    /\ m_last = NoRun
    /\ m_hist = <<>>

\* The Metadata Worker's state while another component is looked at alone.
MetaAtRest ==
    /\ store = {}
    /\ m_now = 2
    /\ m_videos = {}
    /\ m_runs = 0
    /\ m_last = NoRun
    /\ m_hist = <<>>

\* Time passes.
Tick ==
    /\ m_now < MaxTime
    /\ m_now' = m_now + 1
    /\ UNCHANGED <<store, m_videos, m_runs, m_last, m_hist>>
    /\ UNCHANGED notMeta

\* The profile publishes a video; its upload_date is today's date.
Publish ==
    /\ Cardinality(m_videos) < MaxVideos
    /\ m_videos' = m_videos \cup {[id |-> Cardinality(m_videos) + 1,
                                   upload_date |-> Midnight(m_now),
                                   uploaded_at |-> m_now]}
    /\ UNCHANGED <<store, m_now, m_runs, m_last, m_hist>>
    /\ UNCHANGED notMeta

\* A mutation of NoNewMetadata: a pass that never takes the frame for empty.
NeverEmpty(frame) == FALSE

\* main's test after the cursor filter: a frame without rows is logged as "No
\* new metadata found" and the pass continues with the next profile.
NoNewMetadata(frame) == frame = {}

\* One pass of main's loop for the profile: fetch the profile's metadata
\* (None on a failed download, without any video or without a readable info
\* file: continue), compute the cursor, filter, skip an empty result, upload
\* the rest under the current time; an exception (strptime, upload) is caught
\* and logged. bad are the ids of the info files that cannot be read.
MetadataRun(fetch_ok, bad, upload_ok) ==
    /\ m_runs < MaxRuns
    /\ m_runs' = m_runs + 1
    /\ bad \subseteq {v.id : v \in m_videos}
    /\ LET video_metadata == get_profile_metadata(m_videos, fetch_ok, bad)
           fetched == ~video_metadata.none
           last == check_last_processed_at(store, Profile)
           kept == FilterUnprocessed(video_metadata.rows, last)
           write == fetched /\ last.kind # "raise" /\ ~NoNewMetadata(kept) /\ upload_ok
           downloaded == IF fetch_ok THEN m_videos ELSE {}
       IN  /\ store' = IF write THEN Put(store, MetadataKey(Profile, m_now), kept)
                       ELSE store
           /\ m_last' = IF ~fetched
                        THEN [NoRun EXCEPT !.store0 = store, !.downloaded = downloaded,
                                           !.bad = bad]
                        ELSE [fetched |-> TRUE, cursor |-> last,
                              candidates |-> video_metadata.rows,
                              kept |-> IF last.kind = "raise" THEN {} ELSE kept,
                              wrote |-> write, at |-> m_now, store0 |-> store,
                              downloaded |-> downloaded, bad |-> bad]
    /\ m_hist' = IF m_last'.fetched
                  THEN Append(m_hist, [keys |-> {o.key : o \in store},
                                       candidates |-> m_last'.candidates,
                                       cursor |-> m_last'.cursor,
                                       kept |-> m_last'.kept, at |-> m_now])
                  ELSE m_hist
    /\ UNCHANGED <<m_now, m_videos>>
    /\ UNCHANGED notMeta

MetaNext ==
    \/ Tick
    \/ Publish
    \/ \E fetch_ok \in BOOLEAN : \E bad \in SUBSET (1..MaxVideos) :
          \E upload_ok \in BOOLEAN : MetadataRun(fetch_ok, bad, upload_ok)

\* ---------------------------------------------------------------------------
\* Transcription Worker
\* ---------------------------------------------------------------------------

\* Length of the id list handed to process_videos.
MaxIds == 3

VideoIds == 1..MaxIds

\* The id lists main passes: the id column of one profile's metadata rows,
\* which come from distinct <id>.info.json files, so without repetition.
IdLists ==
    {ids \in UNION {[1..n -> VideoIds] : n \in 0..MaxIds} :
        \A i, j \in 1..Len(ids) : i # j => ids[i] # ids[j]}

\* A transcript entry: None, or the text transcribed from an id's audio.
None == [none |-> TRUE, of |-> 0]

Text(id) == [none |-> FALSE, of |-> id]

\* [None] * len(video_ids)
AllNone(ids) == [k \in 1..Len(ids) |-> None]

NothingFailed ==
    [bulk |-> FALSE, acquired |-> {}, untranscribed |-> {}, cleanup |-> FALSE,
     finally |-> FALSE]

TransAtRest ==
    /\ tr_variant = "processing"
    /\ tr_ids = <<>>
    /\ tr_pc = "finished"
    /\ tr_dir = FALSE
    /\ tr_files = {}
    /\ tr_paths = <<>>
    /\ tr_k = 0
    /\ tr_transcripts = <<>>
    /\ tr_result = <<>>
    /\ tr_env = NothingFailed

\* process_videos(profile, video_ids) is entered.
TransInit ==
    /\ tr_variant \in {"processing", "ingestion"}
    /\ tr_ids \in IdLists
    /\ tr_pc = "download"
    /\ tr_dir = FALSE
    /\ tr_files = {}
    /\ tr_paths = <<>>
    /\ tr_k = 0
    /\ tr_transcripts = <<>>
    /\ tr_result = <<>>
    /\ tr_env = NothingFailed

\* Where the loop over audio_paths continues after position k: the next
\* position, or the cleanup after the last one.
AfterPosition(k) == IF k < Len(tr_ids) THEN "loop" ELSE "cleanup"

\* process_videos' except clause: log and return [None] * len(video_ids).
ExceptionPath ==
    /\ tr_result' = AllNone(tr_ids)
    /\ tr_pc' = "done"

\* download_videos: the scratch directory is made, one bulk download is run
\* and for each id the presence of <id>.wav decides its path; an exception
\* (of mkdir, or of the download with some files possibly written) gives all
\* None.
DownloadVideos(made, bulk_ok, got) ==
    /\ tr_pc = "download"
    /\ got \subseteq {tr_ids[k] : k \in 1..Len(tr_ids)}
    /\ (bulk_ok \/ got # {}) => made
    /\ tr_dir' = made
    /\ tr_files' = got
    /\ tr_paths' = IF bulk_ok
                      THEN [k \in 1..Len(tr_ids) |->
                               IF tr_ids[k] \in got THEN Text(tr_ids[k]) ELSE None]
                      ELSE AllNone(tr_ids)
    /\ tr_env' = [tr_env EXCEPT !.bulk = ~bulk_ok,
                                !.acquired = IF bulk_ok THEN got ELSE {}]
    /\ tr_k' = 1
    /\ tr_pc' = AfterPosition(0)
    /\ UNCHANGED <<tr_variant, tr_ids, tr_transcripts, tr_result>>
    /\ UNCHANGED notTrans

DropFailedItem(ts) == ts

\* transcripts.append(None) for a position without audio
AppendFailedItem(ts) == Append(ts, None)

\* One pass of the loop over audio_paths: a missing path appends None;
\* otherwise transcribe_audio returns the text or (on any exception) None,
\* which is appended. The earlier Transcriber then unlinks the audio file,
\* and an exception of that leaves through process_videos' except clause.
TranscribeNext(transcribe_ok, unlink_ok) ==
    /\ tr_pc = "loop"
    /\ LET id == tr_ids[tr_k] IN
       IF tr_paths[tr_k] = None
         THEN /\ tr_transcripts' = AppendFailedItem(tr_transcripts)
              /\ tr_k' = tr_k + 1
              /\ tr_pc' = AfterPosition(tr_k)
              /\ UNCHANGED <<tr_files, tr_env, tr_result>>
         ELSE /\ tr_transcripts' =
                    Append(tr_transcripts, IF transcribe_ok THEN Text(id) ELSE None)
              /\ tr_k' = tr_k + 1
              /\ IF tr_variant = "ingestion" /\ ~unlink_ok
                   THEN /\ tr_env' = [tr_env EXCEPT
                               !.untranscribed = IF transcribe_ok THEN @ ELSE @ \cup {tr_k},
                               !.cleanup = TRUE]
                        /\ ExceptionPath
                        /\ UNCHANGED tr_files
                   ELSE /\ tr_env' = [tr_env EXCEPT
                               !.untranscribed = IF transcribe_ok THEN @ ELSE @ \cup {tr_k}]
                        /\ tr_files' = IF tr_variant = "ingestion"
                                          THEN tr_files \ {id} ELSE tr_files
                        /\ tr_pc' = AfterPosition(tr_k)
                        /\ UNCHANGED tr_result
    /\ UNCHANGED <<tr_variant, tr_ids, tr_dir, tr_paths>>
    /\ UNCHANGED notTrans

\* The cleanup after the loop and the return of transcripts: shutil.rmtree of
\* the scratch directory if it exists (the earlier Transcriber: rmdir if it
\* exists and is empty); an exception of it leaves through the except clause.
CleanupAndReturn(cleanup_ok) ==
    /\ tr_pc = "cleanup"
    /\ LET removes == IF tr_variant = "processing" THEN tr_dir
                      ELSE tr_dir /\ tr_files = {}
       IN  IF removes /\ ~cleanup_ok
             THEN /\ tr_env' = [tr_env EXCEPT !.cleanup = TRUE]
                  /\ ExceptionPath
                  /\ UNCHANGED <<tr_dir, tr_files>>
             ELSE /\ tr_dir' = IF removes THEN FALSE ELSE tr_dir
                  /\ tr_files' = IF removes THEN {} ELSE tr_files
                  /\ tr_result' = tr_transcripts
                  /\ tr_pc' = "done"
                  /\ UNCHANGED tr_env
    /\ UNCHANGED <<tr_variant, tr_ids, tr_paths, tr_k, tr_transcripts>>
    /\ UNCHANGED notTrans

\* The rest of main's loop body for the profile, after process_videos has
\* returned: the frame is built and uploaded. The earlier pipeline's main
\* does this in a try whose finally removes the profile's scratch directory
\* (shutil.rmtree if it exists, which may raise); the Transcription Worker's
\* main has no cleanup of its own.
FinishProfile(cleanup_ok) ==
    /\ tr_pc = "done"
    /\ tr_pc' = "finished"
    /\ IF tr_variant = "ingestion" /\ tr_dir
         THEN IF cleanup_ok
                THEN /\ tr_dir' = FALSE
                     /\ tr_files' = {}
                     /\ UNCHANGED tr_env
                ELSE /\ tr_env' = [tr_env EXCEPT !.finally = TRUE]
                     /\ UNCHANGED <<tr_dir, tr_files>>
         ELSE UNCHANGED <<tr_dir, tr_files, tr_env>>
    /\ UNCHANGED <<tr_variant, tr_ids, tr_paths, tr_k, tr_transcripts, tr_result>>
    /\ UNCHANGED notTrans

TransNext ==
    \/ \E made \in BOOLEAN : \E bulk_ok \in BOOLEAN : \E got \in SUBSET VideoIds :
          DownloadVideos(made, bulk_ok, got)
    \/ \E transcribe_ok \in BOOLEAN : \E unlink_ok \in BOOLEAN :
          TranscribeNext(transcribe_ok, unlink_ok)
    \/ \E cleanup_ok \in BOOLEAN : CleanupAndReturn(cleanup_ok)
    \/ \E cleanup_ok \in BOOLEAN : FinishProfile(cleanup_ok)

\* ---------------------------------------------------------------------------
\* Worker runs and the Artifact Store
\* ---------------------------------------------------------------------------

\* Profile batches started, seconds of the clock, and items of one batch.
MaxWorkerRuns == 2

MaxClock == 1

BatchItems == 2

Workers == {"metadata", "transcription", "text"}

\* The key a worker's main uploads a profile's batch under, with
\* current_time = datetime.now().strftime('%Y-%m-%d_%H:%M:%S'):
\*   metadata       videos/metadata/profile=<p>/processed_at=<t>/metadata.parquet
\*   transcription  videos/transcripts/PROFILE=<p>/PROCESSED_AT=<t>/transcripts.parquet
\*   text           videos/text/profile=<p>/processed_at=<t>/text.parquet
WorkerKey(worker, profile, t) ==
    CASE worker = "metadata" -> MetadataKey(profile, t)
      [] worker = "transcription" ->
            Key("videos/transcripts", <<Seg("PROFILE", Name(profile)),
                                        Seg("PROCESSED_AT", Stamp(t, "_", ":")),
                                        Seg("", Name("transcripts.parquet"))>>)
      [] worker = "text" ->
            Key("videos/text", <<Seg("profile", Name(profile)),
                                 Seg("processed_at", Stamp(t, "_", ":")),
                                 Seg("", Name("text.parquet"))>>)

\* The function whose queue receives the ObjectCreated notifications of a prefix.
TriggerOf(prefix) ==
    CASE prefix = "videos/metadata" -> "metadata_trigger"
      [] prefix = "videos/transcripts" -> "transcript_trigger"
      [] prefix = "videos/text" -> "text_trigger"

\* create_valid_job_name: the profile taken from the first path part that
\* starts with "profile=", and the fallback without such a part (the md5 of
\* the key in metadata_trigger, 'unknown' in transcript_trigger).
JobNameProfile(fn, key) ==
    LET hits == {i \in 1..Len(key.segs) : key.segs[i].name = "profile"}
    IN  IF hits = {} THEN Name(IF fn = "metadata_trigger" THEN "md5" ELSE "unknown")
        ELSE key.segs[CHOOSE i \in hits : \A j \in hits : i <= j].val

\* What the dispatcher function of an object's prefix makes of the
\* notification of the object: the partition pattern on the decoded key, and
\* the profile of the job name.
Parsed(o) ==
    LET fn == TriggerOf(o.key.prefix)
        event_key == S3EventKey(o.key)
    IN  [key |-> o.key, fn |-> fn, profile |-> o.profile, at |-> o.at,
         match |-> partition_pattern_search(unquote(event_key)),
         job_profile |-> JobNameProfile(fn, IF fn = "metadata_trigger"
                                               THEN unquote(event_key) ELSE event_key)]

NothingParsed ==
    [key |-> Key("", <<>>), fn |-> "none", profile |-> "", at |-> 0,
     match |-> NoMatch, job_profile |-> Name("")]

WorkAtRest ==
    /\ w_clock = 0
    /\ w_runs = <<>>
    /\ w_objects = {}
    /\ w_puts = <<>>
    /\ w_parse = NothingParsed

WorkInit == WorkAtRest

\* datetime.now() moves on by a second.
ClockTick ==
    /\ w_clock < MaxClock
    /\ w_clock' = w_clock + 1
    /\ UNCHANGED <<w_runs, w_objects, w_puts, w_parse>>
    /\ UNCHANGED notWork

\* A job's main reads its input (the profile list, the source artifact) and
\* enters its loop body for a profile (jobs run concurrently). The read is
\* made before the loop in all three mains: when it raises, the exception
\* leaves main and the job fails.
StartRun(worker, profile, read_ok) ==
    /\ Len(w_runs) < MaxWorkerRuns
    /\ w_runs' = Append(w_runs, [worker |-> worker, profile |-> profile, done |-> 0,
                                 state |-> IF read_ok THEN "running" ELSE "failed",
                                 raised |-> IF read_ok THEN "none" ELSE "read"])
    /\ UNCHANGED <<w_clock, w_objects, w_puts, w_parse>>
    /\ UNCHANGED notWork

\* The batch function of the worker (get_profile_metadata, process_videos,
\* process_video_transcripts) handles one more item; nothing is written.
ProcessItem(r) ==
    /\ r <= Len(w_runs)
    /\ w_runs[r].state = "running"
    /\ w_runs[r].done < BatchItems
    /\ w_runs' = [w_runs EXCEPT ![r].done = @ + 1]
    /\ UNCHANGED <<w_clock, w_objects, w_puts, w_parse>>
    /\ UNCHANGED notWork

UploadsAnyTime(run) == TRUE

\* main reaches upload_to_s3 when the batch function has returned.
BatchReturned(run) == run.done = BatchItems

\* upload_to_s3(frame, key) with the key of the current second: the frame is
\* written to a temporary file and put under the key, replacing an object
\* that has the key.
Upload(r) ==
    /\ r <= Len(w_runs)
    /\ w_runs[r].state = "running"
    /\ BatchReturned(w_runs[r])
    /\ LET key == WorkerKey(w_runs[r].worker, w_runs[r].profile, w_clock)
       IN  /\ w_objects' = {o \in w_objects : o.key # key} \cup
                              {[key |-> key, by |-> r, rows |-> w_runs[r].done,
                                profile |-> w_runs[r].profile, at |-> w_clock]}
           /\ w_puts' = Append(w_puts, [key |-> key, by |-> r,
                                        existed |-> \E o \in w_objects : o.key = key])
    /\ w_runs' = [w_runs EXCEPT ![r].state = "uploaded"]
    /\ UNCHANGED <<w_clock, w_parse>>
    /\ UNCHANGED notWork

\* upload_to_s3 raises. The Metadata Worker's main makes the call inside the
\* try of its loop body, whose except Exception logs the error and goes on to
\* the next profile, so main returns normally; in the other two mains nothing
\* catches the exception and the job fails.
UploadRaises(r) ==
    /\ r <= Len(w_runs)
    /\ w_runs[r].state = "running"
    /\ BatchReturned(w_runs[r])
    /\ w_runs' = [w_runs EXCEPT ![r].raised = "write",
                                ![r].state = IF w_runs[r].worker = "metadata"
                                             THEN "logged" ELSE "failed"]
    /\ UNCHANGED <<w_clock, w_objects, w_puts, w_parse>>
    /\ UNCHANGED notWork

\* The job is terminated while the batch is in progress.
Terminate(r) ==
    /\ r <= Len(w_runs)
    /\ w_runs[r].state = "running"
    /\ w_runs' = [w_runs EXCEPT ![r].state = "terminated"]
    /\ UNCHANGED <<w_clock, w_objects, w_puts, w_parse>>
    /\ UNCHANGED notWork

\* The dispatcher function of the prefix parses the notification of the
\* object run r has put.
ParseNotification(r) ==
    /\ \E o \in w_objects :
          /\ o.by = r
          /\ w_parse' = Parsed(o)
    /\ w_parse' # w_parse
    /\ UNCHANGED <<w_clock, w_runs, w_objects, w_puts>>
    /\ UNCHANGED notWork

WorkNext ==
    \/ ClockTick
    \/ \E worker \in Workers : \E profile \in {Profile, OtherProfile} :
          \E read_ok \in BOOLEAN : StartRun(worker, profile, read_ok)
    \/ \E r \in 1..MaxWorkerRuns : ProcessItem(r)
    \/ \E r \in 1..MaxWorkerRuns : Upload(r)
    \/ \E r \in 1..MaxWorkerRuns : UploadRaises(r)
    \/ \E r \in 1..MaxWorkerRuns : Terminate(r)
    \/ \E r \in 1..MaxWorkerRuns : ParseNotification(r)

\* ---------------------------------------------------------------------------
\* Job names
\* ---------------------------------------------------------------------------

\* Path parts of a key and characters of the text after 'profile=' considered.
MaxParts == 2

MaxProfileLen == 2

\* Text is a sequence of characters; "%2E" stands for the three characters of
\* the URL escape of '.'.
KeyChars == <<"a", "_", ".", "=", "%2E">>

CharLen(c) == IF c = "%2E" THEN 3 ELSE 1

RECURSIVE TextLen(_)
TextLen(t) == IF t = <<>> THEN 0 ELSE CharLen(Head(t)) + TextLen(Tail(t))

Texts == UNION {[1..n -> {KeyChars[i] : i \in 1..Len(KeyChars)}] : n \in 0..MaxProfileLen}

\* A path part: the text rest, after 'profile=' when the part starts with it.
Parts == [starts_with_profile : BOOLEAN, rest : Texts]

JobKeys == UNION {[1..n -> Parts] : n \in 1..MaxParts}

\* urllib.parse.unquote on a text
unquote_text(t) == [i \in 1..Len(t) |-> IF t[i] = "%2E" THEN "." ELSE t[i]]

unquote_parts(key) ==
    [i \in 1..Len(key) |-> [key[i] EXCEPT !.rest = unquote_text(@)]]

\* part.split('=')[1] of a part that starts with 'profile=': the text between
\* the first '=' and the next one.
RECURSIVE UpToEquals(_)
UpToEquals(t) ==
    IF t = <<>> \/ Head(t) = "=" THEN <<>> ELSE <<Head(t)>> \o UpToEquals(Tail(t))

\* The first part that starts with 'profile=', 0 without one.
FirstProfilePart(key) ==
    LET hits == {i \in 1..Len(key) : key[i].starts_with_profile}
    IN  IF hits = {} THEN 0 ELSE CHOOSE i \in hits : \A j \in hits : i <= j

\* A number that stands for the key's text in the two hash functions.
CharCode(c) == CHOOSE i \in 1..Len(KeyChars) : KeyChars[i] = c

RECURSIVE TextCode(_)
TextCode(t) ==
    IF t = <<>> THEN 1 ELSE CharCode(Head(t)) + (Len(KeyChars) + 1) * TextCode(Tail(t))

RECURSIVE KeyCode(_)
KeyCode(key) ==
    IF key = <<>> THEN 1
    ELSE (IF Head(key).starts_with_profile THEN 1 ELSE 2) + 3 * TextCode(Head(key).rest)
         + 97 * KeyCode(Tail(key))

HexDigits == <<"0", "1", "2", "3", "4", "5", "6", "7", "8", "9", "a", "b", "c", "d", "e", "f">>

DecimalDigits == <<"0", "1", "2", "3", "4", "5", "6", "7", "8", "9">>

\* The last n digits of v in the base of the digit list, most significant first.
RECURSIVE DigitsOf(_, _, _)
DigitsOf(v, n, digits) ==
    IF n = 0 THEN <<>>
    ELSE DigitsOf(v \div Len(digits), n - 1, digits) \o <<digits[(v % Len(digits)) + 1]>>

\* hashlib.md5(key.encode()).hexdigest()[:8]: eight hex digits fixed by the key.
md5_hexdigest_8(key) == DigitsOf(KeyCode(key) * 40503, 8, HexDigits)

\* f"{hash(key) % 1000000:06d}": six decimal digits fixed by the key and by
\* the hash seed of the Python process (str hashes are salted per process).
hash_06d(key, seed) ==
    DigitsOf((KeyCode(key) * (seed + 1) + 7919 * seed) % 1000000, 6, DecimalDigits)

ValidJobNameChars ==
    {"a", "b", "c", "d", "e", "f", "g", "h", "i", "j", "k", "l", "m", "n", "o", "p", "q",
     "r", "s", "t", "u", "v", "w", "x", "y", "z", "0", "1", "2", "3", "4", "5", "6", "7",
     "8", "9", "-", "_"}

\* re.sub(r'[^a-zA-Z0-9-_]', '-', profile)
clean_name(t) == [i \in 1..Len(t) |-> IF t[i] \in ValidJobNameChars THEN t[i] ELSE "-"]

\* The cut of the cleaned profile: [:30]
TruncateAt == 30

\* profile[:n]
Truncated(t, n) == SubSeq(t, 1, IF Len(t) < n THEN Len(t) ELSE n)

\* metadata_trigger: the profile of the decoded key's first 'profile=' part or
\* the md5 prefix of the key, cleaned and cut to 30 characters, between
\* 'transcribe-' and the md5 prefix of the key.
metadata_job_name(key) ==
    LET decoded_key == unquote_parts(key)
        i == FirstProfilePart(decoded_key)
        profile == IF i = 0 THEN md5_hexdigest_8(key) ELSE UpToEquals(decoded_key[i].rest)
    IN  <<"t", "r", "a", "n", "s", "c", "r", "i", "b", "e", "-">>
        \o Truncated(clean_name(profile), TruncateAt) \o <<"-">> \o md5_hexdigest_8(key)

\* transcript_trigger: the profile of the key's first 'profile=' part as it
\* is, or 'unknown', between 'text-' and hash(key) % 1000000.
transcript_job_name(key, seed) ==
    LET i == FirstProfilePart(key)
        profile == IF i = 0 THEN <<"u", "n", "k", "n", "o", "w", "n">>
                   ELSE UpToEquals(key[i].rest)
    IN  <<"t", "e", "x", "t", "-">> \o profile \o <<"-">> \o hash_06d(key, seed)

create_valid_job_name(fn, key, seed) ==
    IF fn = "metadata_trigger" THEN metadata_job_name(key)
    ELSE transcript_job_name(key, seed)

\* Hash seeds of the processes the function runs in.
HashSeeds == {0, 1}

NamesAtRest ==
    /\ jn_fn = "none"
    /\ jn_key = <<>>
    /\ jn_name = <<>>
    /\ jn_prev = <<>>

\* A record with some key is delivered to one of the two functions.
NamesInit ==
    /\ jn_fn \in {"metadata_trigger", "transcript_trigger"}
    /\ jn_key \in JobKeys
    /\ jn_name = <<>>
    /\ jn_prev = <<>>

\* The handler calls create_valid_job_name(key) for the record, in a process
\* with the given hash seed.
CreateJobName(seed) ==
    /\ jn_fn # "none"
    /\ jn_name = <<>>
    /\ jn_name' = create_valid_job_name(jn_fn, jn_key, seed)
    /\ UNCHANGED <<jn_fn, jn_key, jn_prev>>
    /\ UNCHANGED notNames

\* The same record is delivered again and the handler, possibly in another
\* process, calls create_valid_job_name with the same key.
CreateJobNameAgain(seed) ==
    /\ jn_name # <<>>
    /\ jn_prev = <<>>
    /\ jn_prev' = jn_name
    /\ jn_name' = create_valid_job_name(jn_fn, jn_key, seed)
    /\ UNCHANGED <<jn_fn, jn_key>>
    /\ UNCHANGED notNames

NamesNext ==
    \/ \E seed \in HashSeeds : CreateJobName(seed)
    \/ \E seed \in HashSeeds : CreateJobNameAgain(seed)

\* ---------------------------------------------------------------------------
\* Job launcher
\* ---------------------------------------------------------------------------

\* Lines of a profile file and containers considered.
MaxLines == 3

MaxContainers == 3

\* The lines a profile file is made of: empty, blanks only, or a handle.
FileLines == {"", " ", "p1", "p2"}

ProfileFiles == UNION {[1..n -> FileLines] : n \in 0..MaxLines}

\* line.strip()
strip(line) == IF line = " " THEN "" ELSE line

RECURSIVE NonBlankLines(_)
\* [line.strip() for line in f if line.strip()]
NonBlankLines(lines) ==
    IF lines = <<>> THEN <<>>
    ELSE (IF strip(Head(lines)) # "" THEN <<strip(Head(lines))>> ELSE <<>>)
         \o NonBlankLines(Tail(lines))

\* math.ceil(a / b)
ceil_div(a, b) == (a + b - 1) \div b

NotCalled == [state |-> "none", groups |-> <<>>]

\* split_profiles(profile_file, num_containers): the groups are the slices
\* profiles[i : i + profiles_per_container] for i in range(0, len(profiles),
\* profiles_per_container); range raises ValueError for a step of zero.
split_profiles(lines, num_containers) ==
    LET profiles == NonBlankLines(lines)
        profiles_per_container == ceil_div(Len(profiles), num_containers)
        last(g) == IF g * profiles_per_container < Len(profiles)
                   THEN g * profiles_per_container ELSE Len(profiles)
    IN  IF profiles_per_container = 0 THEN [state |-> "raised", groups |-> <<>>]
        ELSE [state |-> "returned",
              groups |-> [g \in 1..ceil_div(Len(profiles), profiles_per_container) |->
                            SubSeq(profiles, (g - 1) * profiles_per_container + 1, last(g))]]

SplitAtRest ==
    /\ sp_lines = <<>>
    /\ sp_containers = 1
    /\ sp_result = NotCalled

\* The launcher is started with some profile file and number of containers.
SplitInit ==
    /\ sp_lines \in ProfileFiles
    /\ sp_containers \in 1..MaxContainers
    /\ sp_result = NotCalled

\* main calls split_profiles(args.profile_file, args.num_containers).
SplitProfiles ==
    /\ sp_result = NotCalled
    /\ sp_result' = split_profiles(sp_lines, sp_containers)
    /\ UNCHANGED <<sp_lines, sp_containers>>
    /\ UNCHANGED notSplit

SplitNext == SplitProfiles

\* ---------------------------------------------------------------------------
\* Artifacts handed from stage to stage
\* ---------------------------------------------------------------------------

\* The keys of the dict extract_video_metadata returns for an item, which
\* become the columns of the frame the Metadata Worker uploads.
MetadataColumns ==
    {"id", "title", "description", "upload_date", "like_count", "repost_count",
     "comment_count", "view_count", "duration", "webpage_url", "channel", "timestamp",
     "uploader", "track", "artists", "artist"}

\* The columns of transcripts_df, the frame the Transcription Worker uploads.
TranscriptColumns == {"id", "profile", "description", "title", "transcript"}

\* The columns process_video_transcripts adds to the frame it is given.
AnalysisColumns == {"language", "category", "summary", "keywords"}

Consumers == {"transcription", "text"}

\* The names of the name=value directories of a key.
PartitionColumns(key) == {key.segs[i].name : i \in 1..Len(key.segs)} \ {""}

\* pd.read_parquet(f's3://{bucket}/{key}'): the columns of the file, and,
\* when the parquet engine takes the name=value directories of the path for
\* partitions, a column for each of them.
read_parquet(a, path_columns) ==
    a.columns \cup (IF path_columns THEN PartitionColumns(a.key) ELSE {})

\* The columns main drops from the loaded frame when they are present.
DroppedColumns(worker) ==
    IF worker = "transcription" THEN {"PROFILE", "PROCESSED_AT"}
    ELSE {"profile", "processed_at"}

\* The columns a worker takes from the loaded frame, in the order of the
\* accesses: transcription main ['profile'], ['id'], ['description'],
\* ['title']; text main ['uploader'], then process_video_transcripts
\* row['title'], row['description'], row['transcript'].
ColumnsRead(worker) ==
    IF worker = "transcription" THEN <<"profile", "id", "description", "title">>
    ELSE <<"uploader", "title", "description", "transcript">>

\* The columns of the frame the worker uploads.
OutputColumns(worker, columns) ==
    IF worker = "transcription" THEN TranscriptColumns ELSE columns \cup AnalysisColumns

NoArtifact == [key |-> Key("", <<>>), columns |-> {}]

NoFrameLoaded ==
    [worker |-> "none", artifact |-> NoArtifact, columns |-> {}, next |-> 0,
     reads |-> {}, outcome |-> "none"]

SchemaInit ==
    /\ sc_store = {}
    /\ sc_frame = NoFrameLoaded

\* The Metadata Worker uploads the frame of a profile.
MetadataUpload(profile) ==
    /\ sc_store' = sc_store \cup {[key |-> MetadataKey(profile, 1),
                                   columns |-> MetadataColumns]}
    /\ sc_store' # sc_store
    /\ UNCHANGED sc_frame
    /\ UNCHANGED notSchema

\* The key of the artifact of a profile that a worker's job is submitted for.
InputKey(worker, profile) ==
    IF worker = "transcription" THEN MetadataKey(profile, 1)
    ELSE WorkerKey("transcription", profile, 1)

\* A consuming worker's main loads the artifact its job was submitted for and
\* drops the partition columns it knows of.
LoadArtifact(worker, profile, path_columns) ==
    /\ sc_frame.outcome # "none" \/ sc_frame.worker = "none"
    /\ \E a \in sc_store :
          /\ a.key = InputKey(worker, profile)
          /\ sc_frame' = [worker |-> worker, artifact |-> a,
                          columns |-> read_parquet(a, path_columns)
                                         \ DroppedColumns(worker),
                          next |-> 1, reads |-> {}, outcome |-> "none"]
    /\ UNCHANGED sc_store
    /\ UNCHANGED notSchema

\* The worker's next access to a column of the frame: frame['<column>'] raises
\* KeyError for a column the frame does not have, and nothing in main catches it.
ReadColumn ==
    /\ sc_frame.worker \in Consumers
    /\ sc_frame.outcome = "none"
    /\ sc_frame.next <= Len(ColumnsRead(sc_frame.worker))
    /\ LET column == ColumnsRead(sc_frame.worker)[sc_frame.next]
       IN  sc_frame' = IF column \in sc_frame.columns
                       THEN [sc_frame EXCEPT !.reads = @ \cup {column}, !.next = @ + 1]
                       ELSE [sc_frame EXCEPT !.reads = @ \cup {column},
                                             !.outcome = "KeyError"]
    /\ UNCHANGED sc_store
    /\ UNCHANGED notSchema

\* The worker uploads its own artifact for the profile of the frame.
UploadOutput ==
    /\ sc_frame.worker \in Consumers
    /\ sc_frame.outcome = "none"
    /\ sc_frame.next > Len(ColumnsRead(sc_frame.worker))
    /\ sc_store' = sc_store \cup
                      {[key |-> WorkerKey(sc_frame.worker,
                                          sc_frame.artifact.key.segs[1].val.s, 1),
                        columns |-> OutputColumns(sc_frame.worker, sc_frame.columns)]}
    /\ sc_frame' = [sc_frame EXCEPT !.outcome = "uploaded"]
    /\ UNCHANGED notSchema

SchemaNext ==
    \/ \E profile \in {Profile, OtherProfile} : MetadataUpload(profile)
    \/ \E worker \in Consumers : \E profile \in {Profile, OtherProfile} :
          \E path_columns \in BOOLEAN : LoadArtifact(worker, profile, path_columns)
    \/ ReadColumn
    \/ UploadOutput

Init ==
    /\ TextInit /\ DispatchInit /\ MetaInit /\ TransInit /\ WorkInit /\ NamesInit
    /\ SplitInit /\ SchemaInit

Next ==
    \/ SchemaNext
    \/ SplitNext
    \/ NamesNext
    \/ TextNext
    \/ DispatchNext
    \/ MetaNext
    \/ TransNext
    \/ WorkNext

Spec == Init /\ [][Next]_vars

\* Each component alone, the others at rest in their initial state.
InitText ==
    TextInit /\ DispatchInit /\ MetaAtRest /\ TransAtRest /\ WorkAtRest /\ NamesAtRest
    /\ SplitAtRest /\ SchemaInit

SpecText == InitText /\ [][TextNext]_vars

InitDispatch ==
    TextInit /\ DispatchInit /\ MetaAtRest /\ TransAtRest /\ WorkAtRest /\ NamesAtRest
    /\ SplitAtRest /\ SchemaInit

SpecDispatch == InitDispatch /\ [][DispatchNext]_vars

\* The dispatcher under the scheduling its platform gives it: the queue keeps
\* delivering, and an invoked handler keeps running (it makes its next call,
\* and polls again while the query is running). When a call succeeds and when
\* the query ends is up to the services called, so nothing is assumed of it.
DispatchFairness ==
    /\ WF_vars(\E fn \in Functions : \E ev \in Events(fn) : Invoke(fn, ev))
    /\ WF_vars(\E ok \in BOOLEAN : SubmitJob(ok))
    /\ WF_vars(\E ok \in BOOLEAN : StartQuery(ok))
    /\ WF_vars(PollRunning)

SpecDispatchLive == InitDispatch /\ [][DispatchNext]_vars /\ DispatchFairness

InitMeta ==
    TextInit /\ DispatchInit /\ MetaInit /\ TransAtRest /\ WorkAtRest /\ NamesAtRest
    /\ SplitAtRest /\ SchemaInit

SpecMeta == InitMeta /\ [][MetaNext]_vars

InitTrans ==
    TextInit /\ DispatchInit /\ MetaAtRest /\ TransInit /\ WorkAtRest /\ NamesAtRest
    /\ SplitAtRest /\ SchemaInit

SpecTrans == InitTrans /\ [][TransNext]_vars

InitWork ==
    TextInit /\ DispatchInit /\ MetaAtRest /\ TransAtRest /\ WorkInit /\ NamesAtRest
    /\ SplitAtRest /\ SchemaInit

SpecWork == InitWork /\ [][WorkNext]_vars

InitNames ==
    TextInit /\ DispatchInit /\ MetaAtRest /\ TransAtRest /\ WorkAtRest /\ NamesInit
    /\ SplitAtRest /\ SchemaInit

SpecNames == InitNames /\ [][NamesNext]_vars

InitSplit ==
    TextInit /\ DispatchInit /\ MetaAtRest /\ TransAtRest /\ WorkAtRest /\ NamesAtRest
    /\ SplitInit /\ SchemaInit

SpecSplit == InitSplit /\ [][SplitNext]_vars

InitSchema ==
    TextInit /\ DispatchInit /\ MetaAtRest /\ TransAtRest /\ WorkAtRest /\ NamesAtRest
    /\ SplitAtRest /\ SchemaInit

SpecSchema == InitSchema /\ [][SchemaNext]_vars

\* ---------------------------------------------------------------------------
\* Properties of the Analysis Worker
\* ---------------------------------------------------------------------------

\* The responses the provider gave for a logged row, in order.
RespSeq(e) == [k \in 1..Len(e.calls) |-> e.calls[k].resp]

AllRateLimited(e) == \A k \in 1..Len(e.calls) : e.calls[k].resp = "rate_limit"

\* C1: sticky model fallback. A row whose provider calls were answered
\* RateLimited, RateLimited, Success gets the successful analysis, its calls
\* went to the models start, start+1, start+2 (cyclically), and the first call
\* made for the next row goes to the model the success came from: for a row
\* started on the first model that is the third model (index 2), not the first.
C1_StickyFallback ==
    \A i \in 1..Len(tp_log) :
        LET e == tp_log[i] IN
        RespSeq(e) = <<"rate_limit", "rate_limit", "ok">> =>
            /\ e.result = "analysis"
            /\ df[i] = AnalysedRow
            /\ e.calls[3].model = OPENAI_MODELS[((e.start + 2) % NumModels) + 1]
            /\ i = Len(tp_log) => current_model_index = (e.start + 2) % NumModels
            /\ (i = Len(tp_log) /\ e.start = 0) => current_model_index = 2
            /\ i < Len(tp_log) =>
                  /\ tp_log[i + 1].start = (e.start + 2) % NumModels
                  /\ Len(tp_log[i + 1].calls) > 0 =>
                        tp_log[i + 1].calls[1].model = e.calls[3].model
                  /\ (e.start = 0 /\ Len(tp_log[i + 1].calls) > 0) =>
                        tp_log[i + 1].calls[1].model = "o1-mini"

\* C1 witness: the first row saw RateLimited, RateLimited, Success and the
\* second row has made its first call.
C1_Witness ==
    /\ Len(tp_log) >= 2
    /\ tp_log[1].start = 0
    /\ RespSeq(tp_log[1]) = <<"rate_limit", "rate_limit", "ok">>
    /\ Len(tp_log[2].calls) > 0

\* C2: exhaustion. Whatever index a row starts with, while every call made
\* for it was answered RateLimited, process_video has made at most N calls,
\* has not returned before the N-th call, and after the N-th call has
\* returned None; no further call is made for the row.
C2_Exhaustion ==
    \A i \in 1..Len(tp_log) :
        LET e == tp_log[i] IN
        AllRateLimited(e) =>
            /\ Len(e.calls) <= NumModels
            /\ Len(e.calls) < NumModels => e.result = "pending"
            /\ Len(e.calls) = NumModels =>
                  /\ e.result = "None"
                  /\ df[i] = DefaultRow
                  /\ (i = Len(tp_log) => tp_pc # "calling")

\* C2 witness: a row that did not start on the first model was rate-limited
\* by all N models and process_video returned None.
C2_Witness ==
    \E i \in 1..Len(tp_log) :
        /\ tp_log[i].start # 0
        /\ Len(tp_log[i].calls) = NumModels
        /\ AllRateLimited(tp_log[i])
        /\ tp_log[i].result = "None"

\* The index of a model in the preference list.
ModelIndex(m) == CHOOSE i \in 0..(NumModels - 1) : OPENAI_MODELS[i + 1] = m

\* C11: non-rate-limit errors short-circuit. A provider call answered with a
\* network failure or a malformed JSON response is the last call made for its
\* row: process_video has returned None, makes no further call for the row,
\* and current_model_index is still the index of the model that call went to
\* (the next row starts with it).
C11_ErrorShortCircuits ==
    \A i \in 1..Len(tp_log) :
        LET e == tp_log[i] IN
        \A k \in 1..Len(e.calls) :
            e.calls[k].resp \in {"net_error", "bad_json"} =>
                /\ k = Len(e.calls)
                /\ e.result = "None"
                /\ i = Len(tp_log) =>
                      /\ tp_pc # "calling"
                      /\ current_model_index = ModelIndex(e.calls[k].model)
                /\ i < Len(tp_log) =>
                      tp_log[i + 1].start = ModelIndex(e.calls[k].model)

\* C11 witness: a row's first call was rate-limited, its second call failed
\* with a malformed response, and the next row has made a call.
C11_Witness ==
    /\ Len(tp_log) >= 2
    /\ RespSeq(tp_log[1]) = <<"rate_limit", "bad_json">>
    /\ Len(tp_log[2].calls) > 0

\* C12: soft failure. A row for which process_video returned None (all models
\* rate-limited, or another error) keeps language None, category None,
\* summary '' and keywords []; the loop goes on (it is never stuck in a failed
\* row), and the frame returned at the end has one record per input row, every
\* row logged exactly once in input order.
C12_SoftFailure ==
    /\ \A i \in 1..Len(tp_log) :
          tp_log[i].result = "None" =>
              /\ df[i] = [language |-> "None", category |-> "None",
                          summary |-> "", keywords |-> "[]"]
              /\ i = Len(tp_log) => tp_pc \in {"ready", "done"}
    /\ Len(df) = MaxRows
    /\ Len(tp_log) = tp_row
    /\ tp_pc = "done" =>
          /\ Len(tp_log) = MaxRows
          /\ \A i \in 1..MaxRows : tp_log[i].result # "pending"

\* C12 witness: the batch is finished, its first row failed by exhaustion,
\* its second by a network failure, and its last row was analysed.
C12_Witness ==
    /\ tp_pc = "done"
    /\ AllRateLimited(tp_log[1]) /\ tp_log[1].result = "None"
    /\ RespSeq(tp_log[2]) = <<"net_error">>
    /\ tp_log[MaxRows].result = "analysis"
    /\ df[MaxRows] = AnalysedRow

\* C27: one attempt per model. The calls made for a row that started with
\* index i go, in order, to the models i, i+1, ... of the preference list
\* taken cyclically; there are at most N of them and no model is called twice
\* for the row.
C27_OneAttemptPerModel ==
    \A i \in 1..Len(tp_log) :
        LET e == tp_log[i] IN
        /\ Len(e.calls) <= NumModels
        /\ \A k \in 1..Len(e.calls) :
              e.calls[k].model = OPENAI_MODELS[((e.start + k - 1) % NumModels) + 1]
        /\ \A j, k \in 1..Len(e.calls) : j # k => e.calls[j].model # e.calls[k].model

\* C27 witness: a row that started in the middle of the list has called all
\* N models, wrapping around to the first.
C27_Witness ==
    \E i \in 1..Len(tp_log) :
        /\ tp_log[i].start = 1
        /\ Len(tp_log[i].calls) = NumModels
        /\ tp_log[i].calls[NumModels].model = OPENAI_MODELS[1]

\* C28: inter-item throttling. Items are processed one after another (a row
\* is started only when process_video has returned for the row before), one
\* delay has been made for every started row whatever the number of attempts
\* it or the rows before it needed, it was made before the row's first call,
\* and no delay is made between the attempts of a row.
C28_InterItemThrottling ==
    /\ tp_sleeps = Len(tp_log)
    /\ \A i \in 1..Len(tp_log) :
          /\ tp_log[i].slept = i
          /\ i < Len(tp_log) => tp_log[i].result # "pending"

\* C28 witness: the first row needed three attempts, the second two, and the
\* third row has made its first call.
C28_Witness ==
    /\ Len(tp_log) = 3
    /\ Len(tp_log[1].calls) = 3
    /\ Len(tp_log[2].calls) = 2
    /\ Len(tp_log[3].calls) = 1
    /\ tp_sleeps = 3

\* C34: all-or-nothing analysis fields. Every row of the frame has either all
\* four analysis fields set from one analysis result or all four at their
\* defaults; no row has only some of them updated.
C34_AllOrNothingFields ==
    \A i \in 1..Len(df) : df[i] = DefaultRow \/ df[i] = AnalysedRow

\* C38: exhaustion restores the index. A row for which all N models were
\* rate-limited leaves current_model_index at the value it had when the row
\* started: the next row starts from the same model.
C38_ExhaustionRestoresIndex ==
    \A i \in 1..Len(tp_log) :
        LET e == tp_log[i] IN
        (Len(e.calls) = NumModels /\ AllRateLimited(e)) =>
            /\ i = Len(tp_log) => current_model_index = e.start
            /\ i < Len(tp_log) =>
                  /\ tp_log[i + 1].start = e.start
                  /\ Len(tp_log[i + 1].calls) > 0 =>
                        tp_log[i + 1].calls[1].model = e.calls[1].model

\* C38 witness: a row started on the second model, was rate-limited by all N
\* models, and the next row has made its first call.
C38_Witness ==
    \E i \in 1..(Len(tp_log) - 1) :
        /\ tp_log[i].start = 1
        /\ Len(tp_log[i].calls) = NumModels
        /\ AllRateLimited(tp_log[i])
        /\ Len(tp_log[i + 1].calls) > 0

\* The response of the provider call a step has just logged, "none" for a
\* step that logged no call.
LastResponse ==
    IF /\ tp_row' = tp_row /\ tp_row > 0
       /\ Len(tp_log'[tp_row].calls) = Len(tp_log[tp_row].calls) + 1
    THEN tp_log'[tp_row].calls[Len(tp_log'[tp_row].calls)].resp
    ELSE "none"

\* C39: model index bounds. current_model_index is always one of 0..N-1, and
\* a step changes it only when the provider answered the step's call with a
\* rate limit, and then by exactly +1 modulo N.
C39_ModelIndexBounds ==
    /\ [](current_model_index \in 0..(NumModels - 1))
    /\ [][(current_model_index' # current_model_index \/ LastResponse = "rate_limit") =>
              /\ LastResponse = "rate_limit"
              /\ current_model_index' = (current_model_index + 1) % NumModels]_vars

\* C39 witness: after a rate limit followed by another error, then two rate
\* limits and a success, the index has gone round to the first model.
C39_Witness ==
    /\ Len(tp_log) >= 2
    /\ RespSeq(tp_log[1]) = <<"rate_limit", "net_error">>
    /\ RespSeq(tp_log[2]) = <<"rate_limit", "rate_limit", "ok">>
    /\ current_model_index = 0

\* ---------------------------------------------------------------------------
\* Properties of the Partition Registry and the Stage Dispatcher
\* ---------------------------------------------------------------------------

\* The queries of the current (or last finished) invocation that ran in Athena.
RanQueries == {k \in 1..Len(h.qlog) : h.qlog[k].fate = "none"}

\* C3: idempotent partition add. A partition statement that runs while its
\* (table, profile, processed_at) is not registered, or is registered with the
\* very location the statement names (the second of two identical calls),
\* ends SUCCEEDED, and afterwards the catalog holds exactly one partition for
\* that (table, profile, processed_at), at that location. The catalog never
\* holds two partitions with the same table and partition values.
C3_IdempotentAdd ==
    /\ \A k \in RanQueries :
          LET e == h.qlog[k] IN
          e.existing \subseteq {e.query.location} =>
              /\ e.state = "SUCCEEDED"
              /\ Cardinality(Registered(catalog, e.query)) = 1
              /\ \A c \in Registered(catalog, e.query) : c.location = e.query.location
    /\ \A c1, c2 \in catalog :
          (c1.table = c2.table /\ c1.profile = c2.profile
              /\ c1.processed_at = c2.processed_at) => c1 = c2

\* C3 witness: an add_partition call of a lambda ran for a partition that was
\* already registered with the same location, and succeeded again.
C3_Witness ==
    \E k \in RanQueries :
        /\ h.fn \in Functions
        /\ h.qlog[k].existing = {h.qlog[k].query.location}
        /\ h.qlog[k].state = "SUCCEEDED"
        /\ h.qlog[k].seen

\* C4: conflict detection. A partition statement that runs while its
\* (table, profile, processed_at) is registered with a different location
\* does not end as a success: the query does not end SUCCEEDED and the
\* invocation records a failed step.
C4_ConflictDetected ==
    \A k \in RanQueries :
        LET e == h.qlog[k] IN
        (e.existing # {} /\ e.query.location \notin e.existing) =>
            /\ e.state # "SUCCEEDED"
            /\ h.failed

\* The directory that holds the object a record is about.
ArtifactDirectory(fn, rec) ==
    full_path(rec.bucket, IF fn \in Functions THEN unquote(rec.key) ELSE rec.key)

\* C35: registry consistent with store. Every partition a handler or the
\* script adds to the catalog has the table of the stage whose prefix the
\* triggering artifact lies under, and as location the directory that holds
\* that artifact, so that no registered location is without an artifact.
C35_RegistryConsistentWithStore ==
    \A k \in 1..Len(h.qlog) :
        LET e == h.qlog[k]
            rec == h.ev.records[e.rec]
        IN  (e.fate = "none" /\ e.state = "SUCCEEDED" /\ e.existing = {}) =>
                /\ e.query.table = ScriptTable(e.query.location.dir.prefix)
                /\ e.query.location = ArtifactDirectory(h.fn, rec)

\* Whether the key of the record a call was made for names a partition.
WellFormed(rec) == partition_pattern_search(unquote(rec.key)).matched

\* C8: malformed key. No call to the Partition Registry (start_query_execution)
\* and no call to the Work Queue (submit_job) is made by a dispatcher handler
\* for a record whose key does not match profile=<p>/processed_at=<ts>/.
C8_MalformedKeyDropped ==
    h.fn \in Functions =>
        \A k \in 1..Len(h.calls) : WellFormed(h.ev.records[h.calls[k].rec])

\* C9: dispatcher failure semantics. A handler invocation in which some step
\* failed (job submission raised, starting or polling the query raised, the
\* query ended FAILED or CANCELLED) ends by raising, never by returning 200.
C9_FailureRaises ==
    (h.fn \in Functions /\ h.pc = "done" /\ h.failed) => h.outcome = "raised"

\* C10: idempotence under duplicate delivery. A handler invocation for an
\* event that an earlier invocation already returned 200 for adds no partition
\* and submits no job.
C10_DuplicateDeliveryNoOp ==
    (h.fn \in Functions /\ h.pc = "done" /\ h.dup) =>
        /\ jobs = h.jobs0
        /\ catalog = h.catalog0

\* The submit_job calls of the current invocation that returned a job id (a
\* call that raises is the invocation's last).
SubmittedRecords ==
    {h.calls[k].rec : k \in {i \in 1..Len(h.calls) :
                                /\ h.calls[i].api = "submit_job"
                                /\ ~(i = Len(h.calls) /\ h.outcome = "raised")}}

\* The keys of the artifacts whose notifications the functions receive.
ArtifactKeys == UNION {{GoodKey(fn), MalformedKey(fn), NestedKey(fn)} : fn \in Functions}

\* C17: job submission by reference. For every record a handler has submitted
\* a job for, the job is queued, its environment overrides are exactly two
\* variables, and the worker the job definition runs reads its input from the
\* bucket of the record and from the key of the artifact the record notifies
\* (the key as written, not as the notification encodes it).
C17_JobByReference ==
    h.fn \in Functions =>
        \A k \in SubmittedRecords :
            LET rec == h.ev.records[k]
                j == JobFor(h.fn, rec.bucket, unquote(rec.key))
                input == WorkerInput(WorkerOf(j.jobDefinition), JobEnvironment(j))
            IN  /\ j \in DOMAIN jobs
                /\ Cardinality(DOMAIN JobEnvironment(j)) = 2
                /\ input.bucket = rec.bucket
                /\ input.key \in ArtifactKeys
                /\ S3EventKey(input.key) = rec.key

\* C17 witness: both dispatching functions have a job queued, and the handler
\* has just submitted the job of the second record of a two-record event.
C17_Witness ==
    /\ \E j \in DOMAIN jobs : j.jobDefinition = "TRANSCRIBER_JOB_DEFINITION"
    /\ \E j \in DOMAIN jobs : j.jobDefinition = "TEXT_ANALYSIS_JOB_DEFINITION"
    /\ SubmittedRecords = {1, 2}

\* The notification of a written artifact as the stack's channel delivers it
\* to the function: the S3 event as the body of an SQS message.
Notification(fn) ==
    [envelope |-> "sqs", records |-> <<S3Record("tiktoktrends", GoodKey(fn))>>]

\* Every delivery so far came through the channel the stack configures.
ConfiguredChannelOnly == h.ev.envelope \in {"none", "sqs"}

MetadataNotified == h.fn = "metadata_trigger" /\ h.ev = Notification("metadata_trigger")

TranscriptionJobSubmitted ==
    JobFor("metadata_trigger", "tiktoktrends", GoodKey("metadata_trigger")) \in DOMAIN jobs

\* C13: end-to-end progress, its first link. When the notifications of written
\* artifacts are delivered through the configured channel and the one of a
\* metadata artifact is delivered, a transcription job for that artifact is
\* eventually submitted (the later links - transcript artifact, analysis job,
\* analysis artifact, analysis partition - all follow from this one).
C13_EndToEndProgress ==
    ([]ConfiguredChannelOnly /\ <>MetadataNotified) => <>TranscriptionJobSubmitted

\* C14: bounded polling. An add_partition that is polling its query
\* eventually stops polling, also when the query does not reach SUCCEEDED,
\* FAILED or CANCELLED.
C14_PollingTerminates == (h.pc = "poll") ~> (h.pc # "poll")

\* The partitions of the catalog with the profile and processed_at of a key.
RegisteredFor(key) ==
    LET m == partition_pattern_search(key)
    IN  {c \in catalog : c.profile = m.profile /\ c.processed_at = m.processed_at}

\* C15: every stage registers. When a handler of any of the three stages has
\* returned 200 for an event of well-formed records and none of its steps
\* failed, the catalog holds a partition with the profile and processed_at of
\* each record's key.
C15_EveryStageRegisters ==
    (/\ h.fn \in Functions
     /\ h.pc = "done" /\ h.outcome = "ok" /\ ~h.failed
     /\ \A k \in 1..Len(h.ev.records) : WellFormed(h.ev.records[k]))
        => \A k \in 1..Len(h.ev.records) :
              RegisteredFor(unquote(h.ev.records[k].key)) # {}

\* C25: step order in the dispatcher. In an invocation of one of the
\* functions, every submit_job call made for a record whose key names a
\* partition comes after the start of the registration query for that record:
\* no job is submitted for an event whose registration was not yet attempted
\* (looked at in the invocations that have queued a job).
C25_RegisterBeforeSubmit ==
    (h.fn \in Functions /\ jobs # h.jobs0) =>
        \A k \in 1..Len(h.calls) :
            (h.calls[k].api = "submit_job" /\ WellFormed(h.ev.records[h.calls[k].rec])) =>
                \E j \in 1..(k - 1) :
                    /\ h.calls[j].api = "start_query_execution"
                    /\ h.calls[j].rec = h.calls[k].rec

\* C26: registry result contract. What add_partition gives its caller tells
\* success from failure: a call whose query ended FAILED or CANCELLED, or in
\* which starting or polling the query raised, does not give the caller what
\* a call whose query SUCCEEDED gives.
C26_ResultContract ==
    \A k \in 1..Len(h.returns) :
        h.returns[k].went \in {"FAILED", "CANCELLED", "raised"} =>
            h.returns[k].value # add_partition_returns("SUCCEEDED")

\* C36: event envelope match. An invocation for a notification that came
\* through the configured channel (the S3 notification as the body of an SQS
\* record) does not end by raising before any dispatch step was taken: the
\* handler gets bucket and key out of the envelope.
C36_EnvelopeMatch ==
    (h.fn \in Functions /\ h.ev.envelope = "sqs" /\ h.pc = "done") =>
        ~(h.outcome = "raised" /\ h.calls = <<>>)

\* ---------------------------------------------------------------------------
\* Properties of the Metadata Worker
\* ---------------------------------------------------------------------------

\* The timestamps of the profile's partitions present in a store, in either
\* naming of the partition directories.
PartitionStamps(st, profile) ==
    {o.key.segs[2].val.t :
        o \in {x \in st : /\ Len(x.key.segs) >= 2
                          /\ x.key.segs[1].name \in {"profile", "PROFILE"}
                          /\ x.key.segs[1].val = Name(profile)
                          /\ x.key.segs[2].name \in {"processed_at", "PROCESSED_AT"}}}

\* The timestamps of the partitions the Metadata Worker itself wrote.
WrittenStamps(st, profile) ==
    {t \in 0..MaxTime : \E o \in st : o.key = MetadataKey(profile, t)}

\* C5: cursor filter. In a pass that fetched the profile's videos, with T the
\* latest timestamp among the profile's existing partitions, the kept items
\* are exactly the candidates with upload_date > T; without any existing
\* partition every candidate is kept.
C5_CursorFilter ==
    m_last.fetched =>
        LET parts == PartitionStamps(m_last.store0, Profile) IN
        IF parts = {} THEN m_last.kept = m_last.candidates
        ELSE m_last.kept = {v \in m_last.candidates : v.upload_date > SetMax(parts)}

\* C6: cursor creation and visibility. In a pass that starts after an earlier
\* pass wrote a partition for the profile with timestamp T, the cursor
\* computed by check_last_processed_at is a time and is at least T.
C6_CursorVisible ==
    (m_last.fetched /\ WrittenStamps(m_last.store0, Profile) # {}) =>
        /\ m_last.cursor.kind = "time"
        /\ m_last.cursor.t >= SetMax(WrittenStamps(m_last.store0, Profile))

\* C22: metadata item isolation. In a pass whose download left info files,
\* the frame holds exactly the items whose info file could be read: the
\* unreadable ones are dropped one by one and every readable one is kept;
\* there is no frame only when no file at all could be read.
C22_ItemIsolation ==
    m_last.downloaded # {} =>
        LET parsable == {v \in m_last.downloaded : v.id \notin m_last.bad} IN
        /\ m_last.fetched <=> parsable # {}
        /\ m_last.candidates = parsable

\* A pass that dropped an unreadable item and kept a readable one.
C22_Witness ==
    /\ m_last.fetched
    /\ m_last.bad # {}
    /\ m_last.candidates # {}
    /\ m_last.candidates # m_last.downloaded

\* Two passes that found the same keys in the bucket and had the same
\* candidates.
SameInputs(a, b) == a.keys = b.keys /\ a.candidates = b.candidates

\* C24: clock-skew tolerance. The cursor and the subset the filter selects
\* depend only on the keys of the existing partitions and on the candidates:
\* two passes that differ only in the wall-clock time at which they run
\* compute the same cursor and keep the same items.
C24_ClockSkewTolerance ==
    \A i, j \in 1..Len(m_hist) :
        SameInputs(m_hist[i], m_hist[j]) =>
            /\ m_hist[i].cursor = m_hist[j].cursor
            /\ m_hist[i].kept = m_hist[j].kept

\* Two passes at different wall-clock times with the same inputs, in which a
\* cursor was read and the filter dropped one candidate and kept another.
C24_Witness ==
    \E i, j \in 1..Len(m_hist) :
        /\ SameInputs(m_hist[i], m_hist[j])
        /\ m_hist[i].at # m_hist[j].at
        /\ m_hist[i].cursor.kind = "time"
        /\ m_hist[i].kept # {}
        /\ m_hist[i].kept # m_hist[i].candidates

\* C32: cursor completeness. In a pass that read a cursor, every candidate
\* that was uploaded after the cursor's time is kept: comparing the item's
\* upload_date, a day, with the last processed_at does not exclude a video
\* uploaded after the last recorded run (the cursor never goes back, so an
\* item it excludes once is excluded for good).
C32_CursorCompleteness ==
    (m_last.fetched /\ m_last.cursor.kind = "time") =>
        \A v \in m_last.candidates : v.uploaded_at > m_last.cursor.t => v \in m_last.kept

\* C37: no empty partitions. A pass that found no valid metadata, or whose
\* cursor filter left no new item, leaves the store as it found it: it writes
\* no artifact for the profile; and no metadata partition is without rows.
C37_NoEmptyPartitions ==
    /\ (m_runs > 0 /\ (~m_last.fetched \/ m_last.kept = {})) =>
           (~m_last.wrote /\ store = m_last.store0)
    /\ \A o \in store : o.key = MetadataKey(Profile, o.key.segs[2].val.t) => o.rows # {}

\* A pass read a cursor, had candidates and kept none of them.
C37_Witness ==
    /\ m_runs > 0
    /\ m_last.fetched
    /\ m_last.cursor.kind = "time"
    /\ m_last.candidates # {}
    /\ m_last.kept = {}
    /\ store = m_last.store0

\* The metadata partitions of the profile that hold the video id.
PartitionsHolding(st, profile, id) ==
    {o \in st : /\ \E t \in 0..MaxTime : o.key = MetadataKey(profile, t)
                /\ \E v \in o.rows : v.id = id}

\* C21: video uniqueness. Across the metadata partitions written for the
\* profile over any sequence of passes, each video id is held by at most one
\* partition: an item written by an earlier pass is not written again.
C21_VideoUniqueness ==
    \A id \in 1..MaxVideos : Cardinality(PartitionsHolding(store, Profile, id)) <= 1

\* ---------------------------------------------------------------------------
\* Properties of the Transcription Worker
\* ---------------------------------------------------------------------------

\* Whether the item at position k failed: the bulk download failed, its audio
\* was not acquired, or its transcription raised.
ItemFailed(k) ==
    \/ tr_env.bulk
    \/ tr_ids[k] \notin tr_env.acquired
    \/ k \in tr_env.untranscribed

\* C7: cardinality preservation. When process_videos has returned, its result
\* has exactly one entry per input id, in input order: whatever failed, the
\* entry at position k is None or the transcript of video_ids[k]. When the
\* only failures are acquisition and transcription failures, the entry is
\* None exactly at the positions of the failed items; when a cleanup step
\* raised, the result (of the same length) is None at every position.
C7_CardinalityPreserved ==
    tr_pc \in {"done", "finished"} =>
        /\ Len(tr_result) = Len(tr_ids)
        /\ \A k \in 1..Len(tr_ids) :
              /\ tr_result[k] \in {None, Text(tr_ids[k])}
              /\ ~tr_env.cleanup => (tr_result[k] = None <=> ItemFailed(k))
              /\ tr_env.cleanup => tr_result[k] = None

\* C7 witness: the ids [1, 2, 3] where the acquisition of 2 failed returned
\* three entries with None exactly at the second position.
C7_Witness ==
    /\ tr_pc = "done"
    /\ tr_ids = <<1, 2, 3>>
    /\ tr_env = [NothingFailed EXCEPT !.acquired = {1, 3}]
    /\ tr_result = <<Text(1), None, Text(3)>>

\* C18: scratch cleanup on all exit paths. When the worker is through with a
\* profile's batch - process_videos having returned normally or through its
\* exception path - and the removal in main's finally (where there is one) did
\* not itself raise, the profile's scratch directory does not exist.
C18_ScratchRemoved ==
    (tr_pc = "finished" /\ tr_ids # <<>> /\ ~tr_env.finally) => ~tr_dir

\* C29: per-item audio cleanup. While process_videos is in its loop or at the
\* cleanup after it, the audio file of every earlier position that was
\* transcribed is gone from the scratch directory: it was deleted before the
\* next item's transcription started.
C29_AudioDeletedAfterItem ==
    tr_pc \in {"loop", "cleanup"} =>
        \A j \in 1..(tr_k - 1) :
            (tr_paths[j] # None /\ j \notin tr_env.untranscribed) =>
                tr_ids[j] \notin tr_files

\* ---------------------------------------------------------------------------
\* Properties of the worker runs and the Artifact Store
\* ---------------------------------------------------------------------------

\* C16: key round trip. For the key any of the three workers wrote for a
\* profile p at time ts, the dispatcher's partition pattern matches the
\* notified key and yields exactly p and ts (as the worker formatted it), and
\* the profile of the job name is p.
C16_KeyRoundTrip ==
    w_parse.fn # "none" =>
        /\ w_parse.match.matched
        /\ w_parse.match.profile = Name(w_parse.profile)
        /\ w_parse.match.processed_at = Stamp(w_parse.at, "_", ":")
        /\ w_parse.fn # "text_trigger" => w_parse.job_profile = Name(w_parse.profile)

\* C23: infrastructure errors surface as job failure. A run whose write to the
\* Artifact Store, or whose read of the profile list or source artifact,
\* raised has ended in failure: the exception left main.
C23_InfrastructureErrorFails ==
    \A r \in 1..Len(w_runs) : w_runs[r].raised # "none" => w_runs[r].state = "failed"

\* C19: append-only store. No put is made to a key that already has an object.
C19_AppendOnly == \A k \in 1..Len(w_puts) : ~w_puts[k].existed

\* The puts a run has made.
PutsBy(r) == {k \in 1..Len(w_puts) : w_puts[k].by = r}

\* C20: single write at batch end. A run puts at most one object, and only
\* after all items of its batch are processed: a run that has uploaded made
\* exactly one put, of all the batch's items; a run still in progress or
\* terminated before its upload has made no put and no object in the store is
\* its.
C20_SingleWriteAtBatchEnd ==
    \A r \in 1..Len(w_runs) :
        /\ Cardinality(PutsBy(r)) <= 1
        /\ w_runs[r].state = "uploaded" =>
              /\ Cardinality(PutsBy(r)) = 1
              /\ w_runs[r].done = BatchItems
        /\ w_runs[r].state \in {"running", "terminated", "failed", "logged"} =>
              /\ PutsBy(r) = {}
              /\ \A o \in w_objects : o.by # r
        /\ \A o \in w_objects : o.by = r => o.rows = BatchItems

\* C20 witness: one run was terminated in the middle of its batch and has left
\* nothing, another has uploaded its batch.
C20_Witness ==
    \E r1, r2 \in 1..Len(w_runs) :
        /\ w_runs[r1].state = "terminated"
        /\ w_runs[r1].done > 0
        /\ w_runs[r1].done < BatchItems
        /\ w_runs[r2].state = "uploaded"
        /\ \E o \in w_objects : o.by = r2

\* ---------------------------------------------------------------------------
\* Properties of the job names
\* ---------------------------------------------------------------------------

\* The longest name the cut of the profile allows: 'transcribe-', the cut
\* profile, '-' and eight hex digits.
MaxJobNameLen == Len(<<"t", "r", "a", "n", "s", "c", "r", "i", "b", "e", "-">>) + TruncateAt + 9

\* C30: valid job names. For every key, with or without a 'profile=' part and
\* whatever characters the profile has, the name create_valid_job_name returns
\* is made of letters, digits, hyphens and underscores only, is at most
\* MaxJobNameLen characters long, and is the name an earlier call returned for
\* the same key.
C30_ValidJobNames ==
    jn_name # <<>> =>
        /\ \A i \in 1..Len(jn_name) : jn_name[i] \in ValidJobNameChars
        /\ TextLen(jn_name) <= MaxJobNameLen
        /\ jn_prev # <<>> => jn_name = jn_prev

\* ---------------------------------------------------------------------------
\* Properties of the job launcher
\* ---------------------------------------------------------------------------

RECURSIVE Concatenation(_)
\* The groups one after another.
Concatenation(groups) ==
    IF groups = <<>> THEN <<>> ELSE Head(groups) \o Concatenation(Tail(groups))

\* C31: profile splitting. For every profile file, the empty one included, and
\* every num_containers >= 1, split_profiles returns at most num_containers
\* groups, none of them empty, whose concatenation in order is the list of the
\* file's non-blank lines.
C31_ProfileSplitting ==
    sp_result # NotCalled =>
        /\ sp_result.state = "returned"
        /\ Len(sp_result.groups) <= sp_containers
        /\ \A g \in 1..Len(sp_result.groups) : sp_result.groups[g] # <<>>
        /\ Concatenation(sp_result.groups) = NonBlankLines(sp_lines)

\* ---------------------------------------------------------------------------
\* Properties of the artifacts handed from stage to stage
\* ---------------------------------------------------------------------------

\* C33: stage schema compatibility. Every column a consuming worker reads from
\* the artifact it loaded is a column of the file the producing worker wrote,
\* and no access of the worker ends in a KeyError.
C33_StageSchemaCompatibility ==
    /\ sc_frame.reads \subseteq sc_frame.artifact.columns
    /\ sc_frame.outcome # "KeyError"

====
